---- MODULE Spec2Model ----
(***************************************************************************)
(* Model of the build orchestrator of butido                               *)
(* (src/orchestrator/orchestrator.rs): one JobTask per node of the job     *)
(* tree, connected by bounded mpsc channels, all task futures polled by    *)
(* one FuturesUnordered that is collected into a Result<()>.               *)
(***************************************************************************)
EXTENDS Integers, Sequences, FiniteSets, TLC

\* Largest job tree that is explored (number of JobDefinitions).
MaxNodes == 4

\* Largest number of artifacts one job run returns.
MaxArtifacts == 2

\* Largest job graph with shared dependencies that is explored.
MaxDagNodes == 3

\* Largest number of endpoint configurations.
MaxEndpoints == 2

\* The running-container counts an endpoint reports.  The selection only
\* compares them, and three values give every order of up to three reports.
Loads == {1, 2, 3}

\* Result<usize> of number_of_running_containers.
PollResults == {[tag |-> "Err", load |-> 0]} \cup
               {[tag |-> "Ok", load |-> l] : l \in Loads}

\* Iterations of the selection loop that are followed.
MaxRounds == 2

\* tokio::sync::mpsc::channel(100)
ChannelCapacity == 100

\* The anyhow::Error values a failing job run can report.
Errors == {"E1", "E2"}

\* Name of the root channel when it is used as the outbox of a task.
ROOT == 0

VARIABLES
    jobtree,                \* Tree::inner(): uuid -> JobDefinition.dependencies
    orch_pc,                \* position of Orchestrator::run_tree
    sender,                 \* JobTask.sender: the node whose inbox it feeds, or ROOT
    inbox,                  \* messages buffered in the channel of JobTask.receiver
    root_chan,              \* messages buffered in the root channel
    pc,                     \* the await point every JobTask::run future is at
    received_dependencies,  \* local of JobTask::run
    received_errors,        \* local of JobTask::run
    task_result,            \* what the future of JobTask::run returned
    job_result,             \* what JobHandle::run returned for the job of the task
    sent,                   \* the messages the task handed to self.sender.send
    root_recv,              \* output of root_receiver.recv() in the join!
    jobs_result,            \* output of the running_jobs future in the join!
    result                  \* what run_tree returned

\* State of the endpoint scheduler (src/endpoint/scheduler.rs).
VARIABLES
    endpoint_config,        \* number of EndpointConfigurations, in declared order 1..n
    ep_setup,               \* outcome of Endpoint::setup per configuration
    endpoints,              \* EndpointScheduler.endpoints, in the order collected
    sched_pc,               \* position of EndpointScheduler::setup
    lock,                   \* the RwLock of every endpoint: its writer and readers
    job_pc,                 \* position of schedule_job / JobHandle::run per job
    rounds,                 \* iterations of the loop in select_free_endpoint
    polls,                  \* the (load, endpoint) pairs collected in the round
    selected,               \* JobHandle.endpoint
    container_result,       \* what Endpoint::run_job returned
    log_result,             \* what LogReceiver::join returned
    run_result,             \* what JobHandle::run returned
    ledger                  \* the jobs that have a Job row

ovars == <<jobtree, orch_pc, sender, inbox, root_chan, pc, received_dependencies,
           received_errors, task_result, job_result, sent, root_recv,
           jobs_result, result>>

svars == <<endpoint_config, ep_setup, endpoints, sched_pc, lock, job_pc, rounds,
           polls, selected, container_result, log_result, run_result, ledger>>

\* State of one JobHandle::run with its LogReceiver (src/endpoint/scheduler.rs)
\* and of the JobTask that awaits it.
VARIABLES
    log_input,              \* log_dir, the state of the log path, the items run_job emits
    run_job_pc,             \* number of LogItems run_job has sent, or "returned"
    log_chan,               \* the unbounded channel log_sender -> log_receiver
    lr_pc,                  \* position of LogReceiver::join
    log_path,               \* the path of the log file that was created
    logfile,                \* what was written to the log file
    accu,                   \* local of LogReceiver::join
    success,                \* local of LogReceiver::join
    join_result,            \* what LogReceiver::join returned
    run_job_result,         \* what Endpoint::run_job returned
    handle_result,          \* what JobHandle::run returned
    job_row,                \* the Job row of the job, with its log text
    task_msg                \* what the JobTask sent to its parent

\* State of one reuse query (src/db/find_artifacts.rs).
VARIABLES
    request,                \* the arguments of find_artifacts, the ledger and the stores
    reuse_pc,               \* position in find_artifacts
    candidates,             \* the (artifact, job) rows still in the iterator chain
    reuse_result            \* what find_artifacts returned

\* State of one build command (src/commands/build.rs).
VARIABLES
    build_input,            \* the flags, the env arguments, the state of the source cache
    build_pc,               \* position in build
    additional_env,         \* local of build: the parsed env arguments
    verified,               \* packages whose source was verified
    db_rows,                \* kinds of ledger rows written by this command
    build_result,           \* what build returned
    \* the dependency walk of tree-of
    tree_input,             \* the repository: names and dependencies
    tree_stack,             \* the frames of build_dependencies_tree
    resolved,               \* the lookups made in the repository
    tree_result,            \* what the walk ended with
    \* the parser of dependency strings
    dep_input,              \* the string to parse
    dep_result              \* what the parser returned

lvars == <<log_path, log_input, run_job_pc, log_chan, lr_pc, logfile, accu, success,
           join_result, run_job_result, handle_result, job_row, task_msg>>

rvars == <<request, reuse_pc, candidates, reuse_result>>

bvars == <<build_input, build_pc, additional_env, verified, db_rows,
           build_result>>

tvars == <<tree_input, tree_stack, resolved, tree_result>>

dvars == <<dep_input, dep_result>>

vars == <<ovars, svars, lvars, rvars, bvars, tvars, dvars>>

----------------------------------------------------------------------------
(* Job trees: node 1 is the root package, every other node is the          *)
(* dependency of exactly one earlier node.                                 *)

ParentFns(n) == {p \in [2..n -> 1..n] : \A i \in 2..n : p[i] < i}

TreesOf(n) == {[j \in 1..n |-> {i \in 2..n : p[i] = j}] : p \in ParentFns(n)}

JobTrees == UNION {TreesOf(n) : n \in 1..MaxNodes}

\* Acyclic job graphs in which a node may be the dependency of several
\* nodes: node 1 is listed by none, every other node by an earlier one.
DagsOf(n) ==
    {g \in [1..n -> SUBSET (2..n)] :
        /\ \A j \in 1..n : \A i \in g[j] : j < i
        /\ \A i \in 2..n : \E j \in 1..n : i \in g[j]}

JobDags == UNION {DagsOf(n) : n \in 1..MaxDagNodes}

Nodes == DOMAIN jobtree

Min(S) == CHOOSE x \in S : \A y \in S : x <= y

----------------------------------------------------------------------------
(* JobResult values and helpers                                            *)

None == [tag |-> "None"]

OkMsg(uuid, artifacts) == [tag |-> "Ok", uuid |-> uuid, artifacts |-> artifacts]

ErrMsg(errors) == [tag |-> "Err", errors |-> errors]

\* The artifacts the job of node n yields when it returns k of them.
ArtifactsOf(n, k) == [i \in 1..k |-> <<n, i>>]

\* Variant: the dependency lists are concatenated last-received first.
RECURSIVE FlattenReversed(_)
FlattenReversed(list) ==
    IF list = <<>> THEN <<>>
    ELSE FlattenReversed(Tail(list)) \o Head(list)[2]

RECURSIVE Flatten(_)
Flatten(list) ==
    IF list = <<>> THEN <<>>
    ELSE Head(list)[2] \o Flatten(Tail(list))

\* Variant: one received dependency is taken to be enough.
any_dependency_is_in(dependency_uuids, list) ==
    \/ dependency_uuids = {}
    \/ \E d \in dependency_uuids : \E i \in 1..Len(list) : list[i][1] = d

all_dependencies_are_in(dependency_uuids, list) ==
    \A d \in dependency_uuids : \E i \in 1..Len(list) : list[i][1] = d

missing_deps(dependency_uuids, list) ==
    {d \in dependency_uuids : \A i \in 1..Len(list) : list[i][1] # d}

Finished == {"done", "dropped"}

\* A Receiver lives as long as the future of the task that owns it.
ReceiverAlive(n) == pc[n] \notin Finished

\* The Sender clones of the inbox of n that are still held by a task.
SendersAlive(n) == {t \in Nodes : sender[t] = n /\ pc[t] \notin Finished}

\* Variant: the relation is followed the wrong way round.
FindDependency(jt, uuid) ==
    IF jt[uuid] = {} THEN ROOT ELSE Min(jt[uuid])

\* Variant: the last job that lists the uuid is taken.
FindDependingLast(jt, uuid) ==
    LET found == {j \in DOMAIN jt : uuid \in jt[j]}
    IN  IF found = {} THEN ROOT ELSE CHOOSE x \in found : \A y \in found : y <= x

\* for job in jobs: jobs.iter().find(|j| j.dependencies.contains(job.uuid))
FindDepending(jt, uuid) ==
    LET found == {j \in DOMAIN jt : uuid \in jt[j]}
    IN  IF found = {} THEN ROOT ELSE Min(found)

----------------------------------------------------------------------------
\* The Orchestrator as built by OrchestratorSetup::setup, nothing started.
Prepared ==
    /\ orch_pc = "setup"
    /\ sender = [t \in DOMAIN jobtree |-> ROOT]
    /\ inbox = [t \in DOMAIN jobtree |-> <<>>]
    /\ root_chan = <<>>
    /\ pc = [t \in DOMAIN jobtree |-> "prepared"]
    /\ received_dependencies = [t \in DOMAIN jobtree |-> <<>>]
    /\ received_errors = [t \in DOMAIN jobtree |-> <<>>]
    /\ task_result = [t \in DOMAIN jobtree |-> "pending"]
    /\ job_result = [t \in DOMAIN jobtree |-> None]
    /\ sent = [t \in DOMAIN jobtree |-> <<>>]
    /\ root_recv = None
    /\ jobs_result = "pending"
    /\ result = None

\* Two tasks that call schedule_job and run their JobHandle concurrently.
Jobs == {1, 2}

Unlocked == [writer |-> 0, readers |-> {}]

\* The scheduler variables with nothing configured: in the orchestrator
\* runs the scheduler is represented by the outcomes of its two calls.
SchedulerNotStarted ==
    /\ ep_setup = <<>>
    /\ endpoints = <<>>
    /\ sched_pc = "setup"
    /\ lock = <<>>
    /\ job_pc = [j \in Jobs |-> "new"]
    /\ rounds = [j \in Jobs |-> 0]
    /\ polls = [j \in Jobs |-> <<>>]
    /\ selected = [j \in Jobs |-> 0]
    /\ container_result = [j \in Jobs |-> "none"]
    /\ log_result = [j \in Jobs |-> "none"]
    /\ run_result = [j \in Jobs |-> "none"]
    /\ ledger = {}

\* No JobHandle is being run step by step.
LogIdle ==
    /\ log_input = [log_dir |-> FALSE, creatable |-> FALSE, items |-> <<>>]
    /\ run_job_pc = 0
    /\ log_chan = <<>>
    /\ lr_pc = "open"
    /\ log_path = <<>>
    /\ logfile = <<>>
    /\ accu = <<>>
    /\ success = "None"
    /\ join_result = None
    /\ run_job_result = None
    /\ handle_result = None
    /\ job_row = None
    /\ task_msg = None

\* No reuse query is made.
ReuseIdle ==
    /\ request = None
    /\ reuse_pc = "idle"
    /\ candidates = <<>>
    /\ reuse_result = None

\* No build command is followed.
BuildIdle ==
    /\ build_input = None
    /\ build_pc = "idle"
    /\ additional_env = <<>>
    /\ verified = {}
    /\ db_rows = {}
    /\ build_result = None

\* No dependency walk is followed.
TreeIdle ==
    /\ tree_input = None
    /\ tree_stack = <<>>
    /\ resolved = {}
    /\ tree_result = None

\* No dependency string is parsed.
DepIdle ==
    /\ dep_input = <<>>
    /\ dep_result = None

Init ==
    /\ jobtree \in JobTrees
    /\ Prepared
    /\ endpoint_config = 0
    /\ SchedulerNotStarted
    /\ LogIdle
    /\ ReuseIdle
    /\ BuildIdle
    /\ TreeIdle
    /\ DepIdle

InitDag ==
    /\ jobtree \in JobDags
    /\ Prepared
    /\ endpoint_config = 0
    /\ SchedulerNotStarted
    /\ LogIdle
    /\ ReuseIdle
    /\ BuildIdle
    /\ TreeIdle
    /\ DepIdle

\* run_tree up to the join!: wire every task to the task depending on it.
RunTreeSetup ==
    /\ orch_pc = "setup"
    /\ LET wired == [t \in Nodes |-> FindDepending(jobtree, t)]
       IN  IF \A t \in Nodes : wired[t] # ROOT
           THEN /\ orch_pc' = "returned"
                /\ result' = [tag |-> "Fatal", error |-> "Failed to find root task"]
                /\ pc' = [t \in Nodes |-> "dropped"]
                /\ UNCHANGED sender
           ELSE /\ orch_pc' = "join"
                /\ sender' = wired
                /\ pc' = [t \in Nodes |-> "start"]
                /\ UNCHANGED result
    /\ UNCHANGED <<jobtree, inbox, root_chan, received_dependencies,
                   received_errors, task_result, job_result, sent, root_recv,
                   jobs_result>>

----------------------------------------------------------------------------
(* Completion of one task future inside FuturesUnordered + collect         *)

\* The task returned Ok(()): the collect finishes once every task has.
ReturnOk(t, newpc) ==
    /\ pc' = newpc
    /\ task_result' = [task_result EXCEPT ![t] = "ok"]
    /\ jobs_result' = IF \A u \in Nodes : newpc[u] = "done" THEN "ok" ELSE jobs_result

\* The task returned Err: collect::<Result<()>> stops at the first error and
\* the remaining task futures are dropped with the stream.
ReturnErr(t) ==
    /\ pc' = [u \in Nodes |-> IF u = t THEN "done"
                              ELSE IF pc[u] = "done" THEN "done" ELSE "dropped"]
    /\ task_result' = [task_result EXCEPT ![t] = "err"]
    /\ jobs_result' = "err"

\* self.sender.send(msg).await: TRUE iff the message was accepted.
SendAccepted(t) == sender[t] = ROOT \/ ReceiverAlive(sender[t])

Deliver(t, msg) ==
    /\ sent' = [sent EXCEPT ![t] = Append(@, msg)]
    /\ IF sender[t] = ROOT
       THEN /\ root_chan' = Append(root_chan, msg)
            /\ UNCHANGED inbox
       ELSE /\ inbox' = IF ReceiverAlive(sender[t])
                        THEN [inbox EXCEPT ![sender[t]] = Append(@, msg)]
                        ELSE inbox
            /\ UNCHANGED root_chan

\* A bounded channel accepts a message only while it has a free slot.
HasCapacity(t) ==
    IF sender[t] = ROOT THEN Len(root_chan) < ChannelCapacity
    ELSE Len(inbox[sender[t]]) < ChannelCapacity

----------------------------------------------------------------------------
(* JobTask::run, one action per await point                                *)

\* First poll: the loop condition is evaluated with nothing received.
TaskStart(t) ==
    /\ orch_pc = "join"
    /\ pc[t] = "start"
    /\ pc' = [pc EXCEPT ![t] =
                IF all_dependencies_are_in(jobtree[t], received_dependencies[t])
                THEN "build" ELSE "recv"]
    /\ UNCHANGED <<jobtree, orch_pc, sender, inbox, root_chan,
                   received_dependencies, received_errors, task_result,
                   job_result, sent, root_recv, jobs_result, result>>

\* Some(Ok(v)): push v and evaluate the loop condition again.
RecvOk(t, msg) ==
    LET deps == Append(received_dependencies[t], <<msg.uuid, msg.artifacts>>)
    IN  /\ received_dependencies' = [received_dependencies EXCEPT ![t] = deps]
        /\ inbox' = [inbox EXCEPT ![t] = Tail(@)]
        /\ pc' = [pc EXCEPT ![t] =
                    IF all_dependencies_are_in(jobtree[t], deps)
                    THEN "build" ELSE "recv"]
        /\ UNCHANGED <<received_errors, task_result, job_result, sent,
                       root_chan, jobs_result>>

\* Variant: the errors are only collected, the loop goes on.
RecvErrKeepWaiting(t, msg) ==
    /\ received_errors' = [received_errors EXCEPT ![t] = @ \o msg.errors]
    /\ inbox' = [inbox EXCEPT ![t] = Tail(@)]
    /\ UNCHANGED <<pc, received_dependencies, task_result, job_result, sent,
                   root_chan, jobs_result>>

\* Variant: the collected errors are sent on and the loop goes on.
RecvErrSendAndGoOn(t, msg) ==
    LET errs == received_errors[t] \o msg.errors
    IN  /\ HasCapacity(t)
        /\ received_errors' = [received_errors EXCEPT ![t] = errs]
        /\ sent' = [sent EXCEPT ![t] = Append(@, ErrMsg(errs))]
        /\ IF sender[t] = ROOT
           THEN /\ root_chan' = Append(root_chan, ErrMsg(errs))
                /\ inbox' = [inbox EXCEPT ![t] = Tail(@)]
           ELSE /\ inbox' = IF ReceiverAlive(sender[t])
                            THEN [inbox EXCEPT ![t] = Tail(@),
                                               ![sender[t]] = Append(@, ErrMsg(errs))]
                            ELSE [inbox EXCEPT ![t] = Tail(@)]
                /\ UNCHANGED root_chan
        /\ UNCHANGED <<pc, task_result, jobs_result, received_dependencies,
                       job_result>>

\* Some(Err(e)): append e, send the collected errors on and return Ok(()).
RecvErr(t, msg) ==
    LET errs == received_errors[t] \o msg.errors
    IN  /\ HasCapacity(t)
        /\ received_errors' = [received_errors EXCEPT ![t] = errs]
        /\ sent' = [sent EXCEPT ![t] = Append(@, ErrMsg(errs))]
        /\ IF sender[t] = ROOT
           THEN /\ root_chan' = Append(root_chan, ErrMsg(errs))
                /\ inbox' = [inbox EXCEPT ![t] = Tail(@)]
           ELSE /\ inbox' = IF ReceiverAlive(sender[t])
                            THEN [inbox EXCEPT ![t] = Tail(@),
                                               ![sender[t]] = Append(@, ErrMsg(errs))]
                            ELSE [inbox EXCEPT ![t] = Tail(@)]
                /\ UNCHANGED root_chan
        /\ ReturnOk(t, [pc EXCEPT ![t] = "done"])
        /\ UNCHANGED <<received_dependencies, job_result>>

\* None: every sender of the inbox is gone.
RecvNone(t) ==
    /\ IF missing_deps(jobtree[t], received_dependencies[t]) # {}
       THEN ReturnErr(t)
       ELSE /\ pc' = [pc EXCEPT ![t] = "build"]
            /\ UNCHANGED <<task_result, jobs_result>>
    /\ UNCHANGED <<received_dependencies, received_errors, job_result, sent,
                   inbox, root_chan>>

\* self.receiver.recv().await inside the while loop.
TaskRecv(t) ==
    /\ orch_pc = "join"
    /\ pc[t] = "recv"
    /\ IF inbox[t] # <<>>
       THEN IF Head(inbox[t]).tag = "Ok"
            THEN RecvOk(t, Head(inbox[t]))
            ELSE RecvErr(t, Head(inbox[t]))
       ELSE /\ SendersAlive(t) = {}
            /\ RecvNone(t)
    /\ UNCHANGED <<jobtree, orch_pc, sender, root_recv, result>>

\* RunnableJob::build_from_job(...).await?
TaskBuild(t) ==
    /\ orch_pc = "join"
    /\ pc[t] = "build"
    /\ \E built \in BOOLEAN :
          IF built
          THEN /\ pc' = [pc EXCEPT ![t] = "schedule"]
               /\ UNCHANGED <<task_result, jobs_result>>
          ELSE ReturnErr(t)
    /\ UNCHANGED <<jobtree, orch_pc, sender, inbox, root_chan,
                   received_dependencies, received_errors, job_result, sent,
                   root_recv, result>>

\* self.scheduler.schedule_job(runnable, self.bar).await?
TaskSchedule(t) ==
    /\ orch_pc = "join"
    /\ pc[t] = "schedule"
    /\ \E scheduled \in BOOLEAN :
          IF scheduled
          THEN /\ pc' = [pc EXCEPT ![t] = "run"]
               /\ UNCHANGED <<task_result, jobs_result>>
          ELSE ReturnErr(t)
    /\ UNCHANGED <<jobtree, orch_pc, sender, inbox, root_chan,
                   received_dependencies, received_errors, job_result, sent,
                   root_recv, result>>

\* Variant: only the artifacts of the own job are sent.
OwnMessageOwnOnly(t, res) ==
    IF res.tag = "Ok"
    THEN OkMsg(t, res.artifacts)
    ELSE ErrMsg(<<<<t, res.error>>>>)

\* Variant: the artifacts of the dependencies are put first.
OwnMessageDepsFirst(t, res) ==
    IF res.tag = "Ok"
    THEN OkMsg(t, Flatten(received_dependencies[t]) \o res.artifacts)
    ELSE ErrMsg(<<<<t, res.error>>>>)

\* Variant: the error of the own job is tagged with the uuid of the receiver.
OwnMessageWrongTag(t, res) ==
    IF res.tag = "Ok"
    THEN OkMsg(t, res.artifacts \o Flatten(received_dependencies[t]))
    ELSE ErrMsg(<<<<sender[t], res.error>>>>)

\* The message built from the result of JobHandle::run.
OwnMessage(t, res) ==
    IF res.tag = "Ok"
    THEN OkMsg(t, res.artifacts \o Flatten(received_dependencies[t]))
    ELSE ErrMsg(<<<<t, res.error>>>>)

\* The results JobHandle::run can have for the job of node t.
RunResults(t) ==
    {[tag |-> "Ok", artifacts |-> ArtifactsOf(t, k)] : k \in 0..MaxArtifacts}
    \cup {[tag |-> "Err", error |-> e] : e \in Errors}

\* JobHandle::run().await, then self.sender.send(..).await?
TaskRun(t) ==
    /\ orch_pc = "join"
    /\ pc[t] = "run"
    /\ HasCapacity(t)
    /\ \E res \in RunResults(t) :
          /\ job_result' = [job_result EXCEPT ![t] = res]
          /\ Deliver(t, OwnMessage(t, res))
    /\ IF SendAccepted(t)
       THEN ReturnOk(t, [pc EXCEPT ![t] = "done"])
       ELSE ReturnErr(t)
    /\ UNCHANGED <<jobtree, orch_pc, sender, received_dependencies,
                   received_errors, root_recv, result>>

----------------------------------------------------------------------------
(* The join! of run_tree                                                   *)

\* root_receiver.recv(): the root_sender of run_tree itself is never
\* dropped before the join!, so recv() only completes with a message.
RootRecv ==
    /\ orch_pc = "join"
    /\ root_recv = None
    /\ root_chan # <<>>
    /\ root_recv' = Head(root_chan)
    /\ root_chan' = Tail(root_chan)
    /\ UNCHANGED <<jobtree, orch_pc, sender, inbox, pc, received_dependencies,
                   received_errors, task_result, job_result, sent,
                   jobs_result, result>>

\* Variant: the result of the task futures is not looked at.
RunTreeResultIgnoringJobs(recv, jobs) ==
    IF recv.tag = "None"
    THEN [tag |-> "Fatal", error |-> "No result received..."]
    ELSE IF recv.tag = "Ok"
         THEN [tag |-> "Ok", artifacts |-> recv.artifacts, errors |-> <<>>]
         ELSE [tag |-> "Ok", artifacts |-> <<>>, errors |-> recv.errors]

\* Variant: the Err arm hands out an empty error list.
RunTreeResultDroppingErrors(recv, jobs) ==
    IF jobs = "err" THEN [tag |-> "Fatal", error |-> "task failed"]
    ELSE IF recv.tag = "None"
         THEN [tag |-> "Fatal", error |-> "No result received..."]
         ELSE IF recv.tag = "Ok"
              THEN [tag |-> "Ok", artifacts |-> recv.artifacts, errors |-> <<>>]
              ELSE [tag |-> "Ok", artifacts |-> <<>>, errors |-> <<>>]

\* let _ = jobs_result?; match root_recv { .. }
RunTreeResult(recv, jobs) ==
    IF jobs = "err" THEN [tag |-> "Fatal", error |-> "task failed"]
    ELSE IF recv.tag = "None"
         THEN [tag |-> "Fatal", error |-> "No result received..."]
         ELSE IF recv.tag = "Ok"
              THEN [tag |-> "Ok", artifacts |-> recv.artifacts, errors |-> <<>>]
              ELSE [tag |-> "Ok", artifacts |-> <<>>, errors |-> recv.errors]

\* All three futures of the join! are complete.
RunTreeReturn ==
    /\ orch_pc = "join"
    /\ root_recv # None
    /\ jobs_result # "pending"
    /\ orch_pc' = "returned"
    /\ result' = RunTreeResult(root_recv, jobs_result)
    /\ UNCHANGED <<jobtree, sender, inbox, root_chan, pc,
                   received_dependencies, received_errors, task_result,
                   job_result, sent, root_recv, jobs_result>>

Next ==
    \/ RunTreeSetup /\ UNCHANGED <<svars, lvars, rvars, bvars, tvars, dvars>>
    \/ \E t \in Nodes : TaskStart(t) /\ UNCHANGED <<svars, lvars, rvars, bvars, tvars, dvars>>
    \/ \E t \in Nodes : TaskRecv(t) /\ UNCHANGED <<svars, lvars, rvars, bvars, tvars, dvars>>
    \/ \E t \in Nodes : TaskBuild(t) /\ UNCHANGED <<svars, lvars, rvars, bvars, tvars, dvars>>
    \/ \E t \in Nodes : TaskSchedule(t) /\ UNCHANGED <<svars, lvars, rvars, bvars, tvars, dvars>>
    \/ \E t \in Nodes : TaskRun(t) /\ UNCHANGED <<svars, lvars, rvars, bvars, tvars, dvars>>
    \/ RootRecv /\ UNCHANGED <<svars, lvars, rvars, bvars, tvars, dvars>>
    \/ RunTreeReturn /\ UNCHANGED <<svars, lvars, rvars, bvars, tvars, dvars>>

Spec == Init /\ [][Next]_vars

\* The executor polls every future that can make progress.
FairSpec == Init /\ [][Next]_vars /\ WF_vars(Next)

\* The same program on job graphs with shared dependencies.
SpecDag == InitDag /\ [][Next]_vars

----------------------------------------------------------------------------
TypeOK ==
    /\ orch_pc \in {"setup", "join", "returned"}
    /\ \A t \in Nodes : pc[t] \in {"prepared", "start", "recv", "build", "schedule", "run", "done", "dropped"}
    /\ jobs_result \in {"pending", "ok", "err"}

----------------------------------------------------------------------------
(* The endpoint scheduler: EndpointScheduler::setup, schedule_job with     *)
(* select_free_endpoint, and JobHandle::run.  Endpoints are numbered in    *)
(* the order of their configurations.                                      *)

EndpointIds == 1..endpoint_config

InitSched ==
    /\ jobtree = <<{}>>
    /\ Prepared
    /\ endpoint_config \in 0..MaxEndpoints
    /\ ep_setup = [e \in 1..endpoint_config |-> "pending"]
    /\ endpoints = <<>>
    /\ sched_pc = "setup"
    /\ lock = [e \in 1..endpoint_config |-> Unlocked]
    /\ job_pc = [j \in Jobs |-> "new"]
    /\ rounds = [j \in Jobs |-> 0]
    /\ polls = [j \in Jobs |-> <<>>]
    /\ selected = [j \in Jobs |-> 0]
    /\ container_result = [j \in Jobs |-> "none"]
    /\ log_result = [j \in Jobs |-> "none"]
    /\ run_result = [j \in Jobs |-> "none"]
    /\ ledger = {}
    /\ LogIdle
    /\ ReuseIdle
    /\ BuildIdle
    /\ TreeIdle
    /\ DepIdle

\* One future of setup_endpoints completes; collect() takes its Ok value or
\* stops with its error.
EndpointSetup(e) ==
    /\ sched_pc = "setup"
    /\ ep_setup[e] = "pending"
    /\ \E ok \in BOOLEAN :
          IF ok
          THEN /\ ep_setup' = [ep_setup EXCEPT ![e] = "ok"]
               /\ endpoints' = Append(endpoints, e)
               /\ UNCHANGED sched_pc
          ELSE /\ ep_setup' = [ep_setup EXCEPT ![e] = "err"]
               /\ endpoints' = <<>>
               /\ sched_pc' = "failed"
    /\ UNCHANGED <<endpoint_config, lock, job_pc, rounds, polls, selected,
                   container_result, log_result, run_result, ledger>>

\* unordered.collect().await yields Ok: EndpointScheduler::setup returns.
SetupReturn ==
    /\ sched_pc = "setup"
    /\ Len(endpoints) = endpoint_config
    /\ sched_pc' = "ready"
    /\ UNCHANGED <<endpoint_config, ep_setup, endpoints, lock, job_pc, rounds,
                   polls, selected, container_result, log_result, run_result,
                   ledger>>

\* One iteration of the loop of select_free_endpoint starts: a poll future
\* is pushed for every endpoint and polled for the first time, which takes
\* the write lock of every endpoint that is free.  Without endpoints the
\* collect is empty at once and the loop goes round again.
SelectRound(j) ==
    /\ sched_pc = "ready"
    /\ job_pc[j] \in {"new", "spinning"}
    /\ rounds[j] < MaxRounds
    /\ rounds' = [rounds EXCEPT ![j] = @ + 1]
    /\ job_pc' = [job_pc EXCEPT ![j] =
                    IF endpoints = <<>> THEN "spinning" ELSE "polling"]
    /\ lock' = [e \in EndpointIds |->
                  IF lock[e] = Unlocked THEN [lock[e] EXCEPT !.writer = j]
                  ELSE lock[e]]
    /\ UNCHANGED <<endpoint_config, ep_setup, endpoints, sched_pc, polls,
                   selected, container_result, log_result, run_result, ledger>>

Reported(j) == {polls[j][i][2] : i \in 1..Len(polls[j])}

\* let wl = ep.write().await, for an endpoint that was locked when the
\* round started.
PollAcquire(j, e) ==
    /\ job_pc[j] = "polling"
    /\ e \in EndpointIds
    /\ e \notin Reported(j)
    /\ lock[e] = Unlocked
    /\ lock' = [lock EXCEPT ![e].writer = j]
    /\ UNCHANGED <<endpoint_config, ep_setup, endpoints, sched_pc, job_pc,
                   rounds, polls, selected, container_result, log_result,
                   run_result, ledger>>

\* Variant: the comparison of the loads is reversed.
RECURSIVE sorted_by_descending(_)
sorted_by_descending(list) ==
    IF Len(list) <= 1 THEN list
    ELSE LET rest == sorted_by_descending(SubSeq(list, 1, Len(list) - 1))
             x    == list[Len(list)]
             k    == Cardinality({i \in 1..Len(rest) : rest[i][1] >= x[1]})
         IN  SubSeq(rest, 1, k) \o <<x>> \o SubSeq(rest, k + 1, Len(rest))

\* .sorted_by(|tpla, tplb| tpla.0.cmp(&tplb.0)): a stable sort by load.
RECURSIVE sorted_by(_)
sorted_by(list) ==
    IF Len(list) <= 1 THEN list
    ELSE LET rest == sorted_by(SubSeq(list, 1, Len(list) - 1))
             x    == list[Len(list)]
             k    == Cardinality({i \in 1..Len(rest) : rest[i][1] <= x[1]})
         IN  SubSeq(rest, 1, k) \o <<x>> \o SubSeq(rest, k + 1, Len(rest))

\* The write guards of the poll futures of job j are dropped.
ReleaseWrites(j) ==
    [e \in EndpointIds |-> IF lock[e].writer = j THEN Unlocked ELSE lock[e]]

\* Variant: the write guard outlives the poll future.
KeepGuard(j, e) == lock

\* The poll future of endpoint e ends and its guard wl is dropped.
DropGuard(j, e) == [lock EXCEPT ![e] = Unlocked]

\* wl.number_of_running_containers().await returns and the guard is
\* dropped.  An Err ends the collect and, by `?`, schedule_job; the Ok of
\* the last endpoint ends the round with the first of the sorted pairs.
PollReport(j, e) ==
    /\ job_pc[j] = "polling"
    /\ e \in EndpointIds
    /\ lock[e].writer = j
    /\ \E report \in PollResults :
          IF report.tag = "Err"
          THEN /\ job_pc' = [job_pc EXCEPT ![j] = "failed"]
               /\ lock' = ReleaseWrites(j)
               /\ polls' = [polls EXCEPT ![j] = <<>>]
               /\ UNCHANGED selected
          ELSE LET collected == Append(polls[j], <<report.load, e>>)
               IN  /\ polls' = [polls EXCEPT ![j] = collected]
                   /\ lock' = DropGuard(j, e)
                   /\ IF Len(collected) = Len(endpoints)
                      THEN /\ selected' = [selected EXCEPT ![j] =
                                              Head(sorted_by(collected))[2]]
                           /\ job_pc' = [job_pc EXCEPT ![j] = "scheduled"]
                      ELSE UNCHANGED <<selected, job_pc>>
    /\ UNCHANGED <<endpoint_config, ep_setup, endpoints, sched_pc, rounds,
                   container_result, log_result, run_result, ledger>>

\* Variant: the read lock is given while a writer holds the endpoint.
ReadGrantedAlways(e) == TRUE

\* self.endpoint.read().await returns when no writer holds the lock.
ReadGranted(e) == lock[e].writer = 0

\* JobHandle::run up to the join!: self.endpoint.read().await, then the
\* three create_or_fetch calls, each with `?`.  The pairs collected by
\* select_free_endpoint are gone by now.
RunAcquire(j) ==
    /\ job_pc[j] = "scheduled"
    /\ ReadGranted(selected[j])
    /\ \E fetched \in BOOLEAN :
          IF fetched
          THEN /\ lock' = [lock EXCEPT ![selected[j]].readers = @ \cup {j}]
               /\ job_pc' = [job_pc EXCEPT ![j] = "running"]
               /\ UNCHANGED run_result
          ELSE /\ run_result' = [run_result EXCEPT ![j] = "err"]
               /\ job_pc' = [job_pc EXCEPT ![j] = "finished"]
               /\ UNCHANGED lock
    /\ polls' = [polls EXCEPT ![j] = <<>>]
    /\ UNCHANGED <<endpoint_config, ep_setup, endpoints, sched_pc, rounds,
                   selected, container_result, log_result, ledger>>

\* Variant: the result of the log receiver is not looked at.
JobRowIgnoringLog(res, logres, created) == res /\ created

\* let log = logres?; let (..) = res?; dbmodels::Job::create(..)?
JobRowWritten(res, logres, created) == logres /\ res /\ created

\* tokio::join!(res, logres) completes; the Job row is created when both
\* are Ok; the read guard is dropped on return.
RunFinish(j) ==
    /\ job_pc[j] = "running"
    /\ \E res \in BOOLEAN, logres \in BOOLEAN, created \in BOOLEAN :
          /\ container_result' = [container_result EXCEPT ![j] =
                                     IF res THEN "ok" ELSE "err"]
          /\ log_result' = [log_result EXCEPT ![j] = IF logres THEN "ok" ELSE "err"]
          /\ IF JobRowWritten(res, logres, created)
             THEN /\ ledger' = ledger \cup {j}
                  /\ run_result' = [run_result EXCEPT ![j] = "ok"]
             ELSE /\ ledger' = ledger
                  /\ run_result' = [run_result EXCEPT ![j] = "err"]
    /\ lock' = [lock EXCEPT ![selected[j]].readers = @ \ {j}]
    /\ job_pc' = [job_pc EXCEPT ![j] = "finished"]
    /\ UNCHANGED <<endpoint_config, ep_setup, endpoints, sched_pc, rounds,
                   polls, selected>>

NextSched ==
    \/ \E e \in EndpointIds : EndpointSetup(e) /\ UNCHANGED <<ovars, lvars, rvars, bvars, tvars, dvars>>
    \/ SetupReturn /\ UNCHANGED <<ovars, lvars, rvars, bvars, tvars, dvars>>
    \/ \E j \in Jobs : SelectRound(j) /\ UNCHANGED <<ovars, lvars, rvars, bvars, tvars, dvars>>
    \/ \E j \in Jobs, e \in EndpointIds : PollAcquire(j, e) /\ UNCHANGED <<ovars, lvars, rvars, bvars, tvars, dvars>>
    \/ \E j \in Jobs, e \in EndpointIds : PollReport(j, e) /\ UNCHANGED <<ovars, lvars, rvars, bvars, tvars, dvars>>
    \/ \E j \in Jobs : RunAcquire(j) /\ UNCHANGED <<ovars, lvars, rvars, bvars, tvars, dvars>>
    \/ \E j \in Jobs : RunFinish(j) /\ UNCHANGED <<ovars, lvars, rvars, bvars, tvars, dvars>>

SpecSched == InitSched /\ [][NextSched]_vars

\* schedule_job has returned the JobHandle of job j, not yet run.
Scheduled(j) == job_pc[j] = "scheduled"

\* The endpoints that reported the smallest load in the round of job j.
LeastLoaded(j) ==
    {polls[j][i][2] : i \in {k \in 1..Len(polls[j]) :
                                \A m \in 1..Len(polls[j]) : polls[j][k][1] <= polls[j][m][1]}}

----------------------------------------------------------------------------
(* JobHandle::run and LogReceiver::join (src/endpoint/scheduler.rs), one   *)
(* job followed item by item, and the JobTask that awaits the handle.      *)

\* Largest number of LogItems one container run emits.
MaxLogItems == 2

SeqsUpTo(S, n) == UNION {[1..k -> S] : k \in 0..n}

\* enum LogItem { Line, Progress, CurrentPhase, State(Ok), State(Err) }
LogItems ==
    {[kind |-> "Line", arg |-> "a"],
     [kind |-> "Progress", arg |-> "1"],
     [kind |-> "CurrentPhase", arg |-> "build"],
     [kind |-> "StateOk", arg |-> "done"],
     [kind |-> "StateErr", arg |-> "failed"]}

\* A text is a sequence of pieces; the newline is the piece NL.
NL == "\n"

\* LogItem::display(): the rendering of an item, one text per item.
display(item) ==
    CASE item.kind = "Line"         -> <<item.arg>>
      [] item.kind = "Progress"     -> <<"#BUTIDO:PROGRESS:", item.arg>>
      [] item.kind = "CurrentPhase" -> <<"#BUTIDO:PHASE:", item.arg>>
      [] item.kind = "StateOk"      -> <<"#BUTIDO:STATE:OK:", item.arg>>
      [] item.kind = "StateErr"     -> <<"#BUTIDO:STATE:ERR:", item.arg>>

\* [String]::join(sep)
RECURSIVE slice_join(_, _)
slice_join(texts, sep) ==
    IF texts = <<>> THEN <<>>
    ELSE IF Len(texts) = 1 THEN texts[1]
    ELSE texts[1] \o <<sep>> \o slice_join(Tail(texts), sep)

\* Variant: only the Line items are kept.
AccumulateLines(acc, item) ==
    IF item.kind = "Line" THEN Append(acc, item) ELSE acc

\* accu.push(logitem), after the match on the variant
Accumulate(acc, item) == Append(acc, item)

\* The match on the variant: only State items change `success`.
SuccessAfter(item, before) ==
    CASE item.kind = "StateOk"  -> "Some(true)"
      [] item.kind = "StateErr" -> "Some(false)"
      [] OTHER                  -> before

\* Ok(accu.into_iter().map(display).collect()?.join("\n"))
JoinOk(acc) ==
    [tag |-> "Ok", text |-> slice_join([i \in 1..Len(acc) |-> display(acc[i])], NL)]

JoinErr(what) == [tag |-> "Err", error |-> what]

InitLog ==
    /\ jobtree = <<{}>>
    /\ Prepared
    /\ endpoint_config = 0
    /\ SchedulerNotStarted
    /\ ReuseIdle
    /\ BuildIdle
    /\ TreeIdle
    /\ DepIdle
    /\ log_input \in [log_dir : BOOLEAN, creatable : BOOLEAN,
                      items : SeqsUpTo(LogItems, MaxLogItems)]
    /\ run_job_pc = 0
    /\ log_chan = <<>>
    /\ lr_pc = "open"
    /\ log_path = <<>>
    /\ logfile = <<>>
    /\ accu = <<>>
    /\ success = "None"
    /\ join_result = None
    /\ run_job_result = None
    /\ handle_result = None
    /\ job_row = None
    /\ task_msg = None

\* A path is the list of its components, a component a list of pieces.
LOG_DIR == <<<<"log_dir">>>>

\* job_id.to_string()
JOB_ID == <<"uuid">>

\* PathBuf::join with a relative path: one more component.
path_join(path, component) == Append(path, component)

\* Line 184: log_dir.join(self.job_id.to_string()).join(".log")
logfile_path(log_dir, job_id) ==
    path_join(path_join(log_dir, job_id), <<".log">>)

\* Endpoint::run_job sends its next LogItem; the send fails when the
\* receiver is gone and the item is lost.
RunJobSend ==
    /\ run_job_result = None
    /\ run_job_pc < Len(log_input.items)
    /\ run_job_pc' = run_job_pc + 1
    /\ log_chan' = IF lr_pc = "returned" THEN log_chan
                   ELSE Append(log_chan, log_input.items[run_job_pc + 1])
    /\ UNCHANGED <<log_input, lr_pc, log_path, logfile, accu, success, join_result,
                   run_job_result, handle_result, job_row, task_msg>>

\* Endpoint::run_job returns and drops the log_sender it was given.
RunJobReturn ==
    /\ run_job_result = None
    /\ run_job_pc = Len(log_input.items)
    /\ \E ok \in BOOLEAN :
          run_job_result' = IF ok THEN [tag |-> "Ok"]
                            ELSE [tag |-> "Err"]
    /\ UNCHANGED <<log_input, run_job_pc, log_chan, lr_pc, log_path, logfile, accu,
                   success, join_result, handle_result, job_row, task_msg>>

\* LogReceiver::join opens the log file with create_new when a log_dir is
\* given; a failure returns by `?` and drops the receiver.
LogOpen ==
    /\ lr_pc = "open"
    /\ IF log_input.log_dir /\ ~log_input.creatable
       THEN /\ lr_pc' = "returned"
            /\ join_result' = JoinErr("open")
            /\ log_chan' = <<>>
            /\ UNCHANGED log_path
       ELSE /\ lr_pc' = "recv"
            /\ log_path' = IF log_input.log_dir
                           THEN logfile_path(LOG_DIR, JOB_ID) ELSE <<>>
            /\ UNCHANGED <<join_result, log_chan>>
    /\ UNCHANGED <<log_input, run_job_pc, logfile, accu, success,
                   run_job_result, handle_result, job_row, task_msg>>

\* One iteration of the while let: the item is written to the file with a
\* newline after it, matched on, and pushed to accu.
LogRecv ==
    /\ lr_pc = "recv"
    /\ log_chan # <<>>
    /\ LET logitem == Head(log_chan)
       IN  \E written \in {"both", "none", "item"} :
             /\ written # "both" => log_input.log_dir
             /\ logfile' =
                  IF ~log_input.log_dir \/ written = "none" THEN logfile
                  ELSE IF written = "item" THEN logfile \o display(logitem)
                  ELSE logfile \o display(logitem) \o <<NL>>
             /\ IF written = "both"
                THEN /\ success' = SuccessAfter(logitem, success)
                     /\ accu' = Accumulate(accu, logitem)
                     /\ log_chan' = Tail(log_chan)
                     /\ UNCHANGED <<lr_pc, join_result>>
                ELSE /\ lr_pc' = "returned"
                     /\ join_result' = JoinErr("write")
                     /\ log_chan' = <<>>
                     /\ UNCHANGED <<success, accu>>
    /\ UNCHANGED <<log_input, run_job_pc, run_job_result, handle_result,
                   job_row, task_msg, log_path>>

\* recv() yields None: every sender is dropped and the channel is empty.
\* The file is flushed and the joined log is returned.
LogEnd ==
    /\ lr_pc = "recv"
    /\ log_chan = <<>>
    /\ run_job_result # None
    /\ lr_pc' = "returned"
    /\ \E flushed \in BOOLEAN :
          /\ ~flushed => log_input.log_dir
          /\ join_result' = IF flushed THEN JoinOk(accu) ELSE JoinErr("flush")
    /\ UNCHANGED <<log_input, run_job_pc, log_chan, log_path, logfile, accu, success,
                   run_job_result, handle_result, job_row, task_msg>>

\* The error JobHandle::run returns: logres? comes before res?.
HandleError(logres_ok, res_ok) ==
    IF ~logres_ok THEN "Collecting logs"
    ELSE IF ~res_ok THEN "Running job"
    ELSE "Job::create"

\* The join! of JobHandle::run is complete: logres?, res?, Job::create(..)?
\* Job::create is given the log, not the paths: the one ledger write of
\* the handle is the Job row, without artifact rows.
HandleReturn ==
    /\ handle_result = None
    /\ join_result # None
    /\ run_job_result # None
    /\ \E created \in BOOLEAN :
          LET logres_ok == join_result.tag = "Ok"
              res_ok    == run_job_result.tag = "Ok"
          IN  IF JobRowWritten(res_ok, logres_ok, created)
              THEN /\ job_row' = [log |-> IF logres_ok THEN join_result.text
                                          ELSE <<>>,
                                  artifact_rows |-> <<>>]
                   /\ handle_result' =
                        [tag |-> "Ok", artifacts |-> ArtifactsOf(1, 1)]
              ELSE /\ job_row' = job_row
                   /\ handle_result' =
                        [tag |-> "Err", error |-> HandleError(logres_ok, res_ok)]
    /\ UNCHANGED <<log_input, run_job_pc, log_chan, lr_pc, log_path, logfile, accu,
                   success, join_result, run_job_result, task_msg>>

\* JobTask::run gets the result of the handle and sends its message.
TaskReport ==
    /\ handle_result # None
    /\ task_msg = None
    /\ task_msg' = OwnMessage(1, handle_result)
    /\ UNCHANGED <<log_input, run_job_pc, log_chan, lr_pc, log_path, logfile, accu,
                   success, join_result, run_job_result, handle_result,
                   job_row>>

NextLog ==
    \/ RunJobSend /\ UNCHANGED <<ovars, svars, rvars, bvars, tvars, dvars>>
    \/ RunJobReturn /\ UNCHANGED <<ovars, svars, rvars, bvars, tvars, dvars>>
    \/ LogOpen /\ UNCHANGED <<ovars, svars, rvars, bvars, tvars, dvars>>
    \/ LogRecv /\ UNCHANGED <<ovars, svars, rvars, bvars, tvars, dvars>>
    \/ LogEnd /\ UNCHANGED <<ovars, svars, rvars, bvars, tvars, dvars>>
    \/ HandleReturn /\ UNCHANGED <<ovars, svars, rvars, bvars, tvars, dvars>>
    \/ TaskReport /\ UNCHANGED <<ovars, svars, rvars, bvars, tvars, dvars>>

SpecLog == InitLog /\ [][NextLog]_vars

----------------------------------------------------------------------------
(* The artifact reuse query find_artifacts (src/db/find_artifacts.rs)      *)

\* Largest number of (artifact, job) rows of the ledger.
MaxRows == 2

\* Largest number of variables in one environment list.
MaxEnv == 2

\* Largest number of release stores.
MaxStores == 2

\* Name of the staging store as the root of a FullArtifactPath; release
\* store i of release_stores is named i.
STAGING == 0

EnvPairs == {<<"A", "1">>, <<"A", "2">>, <<"B", "2">>}

Images == {"i1", "i2"}

Scripts == {"s1", "s2"}

\* ScriptBuilder::build(..)? did not render a script.
RenderError == "render error"

\* The artifact paths the stores are probed for.
Paths == {1, 2}

Some(v) == [tag |-> "Some", value |-> v]

\* Lists without repeated entries.
ListsOf(S, n) == {l \in SeqsUpTo(S, n) : \A i, j \in 1..Len(l) : l[i] = l[j] => i = j}

\* Lists without repeated variable names: a package environment is a map.
MapsOf(S, n) == {l \in SeqsUpTo(S, n) : \A i, j \in 1..Len(l) : l[i][1] = l[j][1] => i = j}

\* schema::packages::name.eq(pkg.name()).and(version.eq(pkg.version()))
package_matches(row, req) == row.package = req.pkg.name

\* if let Some(allowed_images) = .. { filter(images::name.eq_any(imgs)) }
image_allowed(row, req) ==
    req.pkg.allowed_images # None => row.image \in req.pkg.allowed_images.value

\* Variant: the denied images are not looked at.
image_denied_ignored(row, req) == TRUE

\* if let Some(denied_images) = .. { filter(images::name.ne_all(imgs)) }
image_not_denied(row, req) ==
    req.pkg.denied_images # None => row.image \notin req.pkg.denied_images.value

\* Variant: the script text is compared whatever the flag says.
script_matches_always(row, req) == row.script = req.script

\* if let Some(script_text) = script.as_ref() { filter(script_text.eq(..)) }
script_matches(row, req) == req.script_filter => row.script = req.script

\* query.load(): the rows of the joined tables that pass the filters, in
\* the order of the ledger.
DbQuery(req) ==
    SelectSeq(req.ledger,
              LAMBDA row : /\ package_matches(row, req)
                           /\ image_allowed(row, req)
                           /\ image_not_denied(row, req)
                           /\ script_matches(row, req))

\* Variant: the value of the first variable with the name is compared.
env_matches_first_key(job_env, chain) ==
    \A i \in 1..Len(job_env) :
        LET named == {j \in 1..Len(chain) : chain[j][1] = job_env[i][1]}
        IN  named # {} /\ chain[Min(named)][2] = job_env[i][2]

\* job_env.iter().all(|(k, v)| chain.any(|(key, value)| k == key && v == value))
env_matches(job_env, chain) ==
    \A i \in 1..Len(job_env) :
        \E j \in 1..Len(chain) :
            chain[j][1] = job_env[i][1] /\ chain[j][2] = job_env[i][2]

\* The closure of the map() at lines 165-194: without a package
\* environment nothing is compared.
env_filter(row, req) ==
    IF req.pkg.environment # None
    THEN env_matches(row.env, req.pkg.environment.value \o req.additional_env)
    ELSE TRUE

\* FileStoreImpl::get(path): membership in the index built on load.
StoreGet(files, path) == path \in files

\* for release_store in release_stores { if let Some(art) = .. { return } }
RECURSIVE LookupRelease(_, _, _)
LookupRelease(stores, i, path) ==
    IF i > Len(stores) THEN None
    ELSE IF StoreGet(stores[i], path) THEN Some(i)
    ELSE LookupRelease(stores, i + 1, path)

\* Variant: the release stores are probed before the staging store.
LookupReleaseFirst(req, path) ==
    LET release == LookupRelease(req.release_stores, 1, path)
    IN  IF release # None THEN release
        ELSE IF req.staging_store # None /\ StoreGet(req.staging_store.value, path)
             THEN Some(STAGING)
             ELSE None

\* The closure at lines 207-232: the root of the store the path is found in.
Lookup(req, path) ==
    IF req.staging_store # None /\ StoreGet(req.staging_store.value, path)
    THEN Some(STAGING)
    ELSE LookupRelease(req.release_stores, 1, path)

\* .and_then_ok(lookup).filter_map_ok(|opt| opt): the rows found in a store.
RECURSIVE ResolveAll(_, _)
ResolveAll(rows, req) ==
    IF rows = <<>> THEN <<>>
    ELSE LET found == Lookup(req, Head(rows).path)
             rest  == ResolveAll(Tail(rows), req)
         IN  IF found = None THEN rest
             ELSE <<[root |-> found.value, path |-> Head(rows).path,
                     released |-> Head(rows).released]>> \o rest

ReuseErr(what) == [tag |-> "Err", error |-> what]

\* Variant: a row whose file is in no store is an error.
CollectedMissingIsError(rows, req) ==
    IF \E i \in 1..Len(rows) : Lookup(req, rows[i].path) = None
    THEN ReuseErr("missing")
    ELSE [tag |-> "Ok", list |-> ResolveAll(rows, req)]

\* .collect::<Result<Vec<(FullArtifactPath, Option<NaiveDateTime>)>>>()
Collected(rows, req) == [tag |-> "Ok", list |-> ResolveAll(rows, req)]

\* The script is rendered only when the script filter is on.
ScriptFails(req) == req.script_filter /\ req.script = RenderError

\* find_artifacts as a whole, when the database answers.
find_artifacts(req) ==
    IF ScriptFails(req) THEN ReuseErr("script")
    ELSE Collected(SelectSeq(DbQuery(req), LAMBDA row : env_filter(row, req)), req)

BaseRequest ==
    [pkg |-> [name |-> "p", environment |-> None, allowed_images |-> None,
              denied_images |-> None],
     additional_env |-> <<>>,
     script_filter |-> FALSE,
     script |-> "s1",
     ledger |-> <<>>,
     staging_store |-> None,
     release_stores |-> <<Paths \cup (1..MaxRows)>>]

BaseRow(path) ==
    [package |-> "p", image |-> "i1", script |-> "s1", env |-> <<>>,
     path |-> path, released |-> FALSE]

\* A query that differs from the base in the environments.
EnvCase(e, o, j) ==
    [BaseRequest EXCEPT !.pkg.environment = e, !.additional_env = o,
                        !.ledger = <<[BaseRow(1) EXCEPT !.env = j]>>]

\* A query that differs in the stores and in the paths of the ledger.
StoreCase(l, st, rs) ==
    [BaseRequest EXCEPT !.ledger = l, !.staging_store = st,
                        !.release_stores = rs]

\* A query that differs in packages, images and scripts.
QueryCase(a, d, f, sc, l) ==
    [BaseRequest EXCEPT !.pkg.allowed_images = a, !.pkg.denied_images = d,
                        !.script_filter = f, !.script = sc,
                        !.ledger = [i \in 1..Len(l) |->
                                      [BaseRow(i) EXCEPT !.package = l[i][1],
                                                         !.image = l[i][2],
                                                         !.script = l[i][3]]]]

InitReuse ==
    /\ jobtree = <<{}>>
    /\ Prepared
    /\ endpoint_config = 0
    /\ SchedulerNotStarted
    /\ LogIdle
    /\ BuildIdle
    /\ TreeIdle
    /\ DepIdle
    /\ \/ \E e \in {None} \cup {Some(m) : m \in MapsOf(EnvPairs, MaxEnv)},
             o \in ListsOf(EnvPairs, MaxEnv),
             j \in ListsOf(EnvPairs, MaxEnv) :
             request = EnvCase(e, o, j)
       \/ \E l \in SeqsUpTo({[BaseRow(p) EXCEPT !.released = r] :
                               p \in Paths, r \in BOOLEAN}, MaxRows),
             st \in {None} \cup {Some(f) : f \in SUBSET Paths},
             rs \in SeqsUpTo(SUBSET Paths, MaxStores) :
             request = StoreCase(l, st, rs)
       \/ \E a \in {None} \cup {Some(x) : x \in SUBSET Images},
             d \in {None} \cup {Some(x) : x \in SUBSET Images},
             f \in BOOLEAN,
             sc \in {"s1", RenderError},
             l \in SeqsUpTo({"p", "q"} \X Images \X Scripts, MaxRows) :
             request = QueryCase(a, d, f, sc, l)
    /\ reuse_pc = "start"
    /\ candidates = <<>>
    /\ reuse_result = None

\* Lines 62-149: the script is rendered when the filter is on, the query is
\* built and loaded; a failure of either returns by `?`.
ReuseQuery ==
    /\ reuse_pc = "start"
    /\ IF ScriptFails(request)
       THEN /\ reuse_result' = ReuseErr("script")
            /\ reuse_pc' = "done"
            /\ UNCHANGED candidates
       ELSE \E loaded \in BOOLEAN :
              IF loaded
              THEN /\ candidates' = DbQuery(request)
                   /\ reuse_pc' = "loaded"
                   /\ UNCHANGED reuse_result
              ELSE /\ reuse_result' = ReuseErr("database")
                   /\ reuse_pc' = "done"
                   /\ UNCHANGED candidates
    /\ UNCHANGED request

\* Lines 165-198: the rows are filtered by the environment of their job.
ReuseFilterEnv ==
    /\ reuse_pc = "loaded"
    /\ candidates' = SelectSeq(candidates, LAMBDA row : env_filter(row, request))
    /\ reuse_pc' = "filtered"
    /\ UNCHANGED <<request, reuse_result>>

\* Lines 199-234: every remaining path is looked up in the stores.
ReuseResolve ==
    /\ reuse_pc = "filtered"
    /\ reuse_result' = Collected(candidates, request)
    /\ reuse_pc' = "done"
    /\ UNCHANGED <<request, candidates>>

NextReuse ==
    \/ ReuseQuery /\ UNCHANGED <<ovars, svars, lvars, bvars, tvars, dvars>>
    \/ ReuseFilterEnv /\ UNCHANGED <<ovars, svars, lvars, bvars, tvars, dvars>>
    \/ ReuseResolve /\ UNCHANGED <<ovars, svars, lvars, bvars, tvars, dvars>>

SpecReuse == InitReuse /\ [][NextReuse]_vars

----------------------------------------------------------------------------
(* The build command (src/commands/build.rs)                               *)

\* Largest number of packages in the closure of the root package.
MaxPackages == 2

\* What the source cache holds for a package.
SourceStates == {"ok", "mismatch", "missing"}

\* tree.all_packages()
Packages == DOMAIN build_input.sources

\* SourceEntry::verify_hash of an existing source file.
source_verifies(state) == state = "ok"

\* verify_impl: Ok when the source of every package was verified.
verify_impl(sources) == \A p \in DOMAIN sources : source_verifies(sources[p])

\* if matches.is_present("no_verification") { warn } else { verify }
verification_wanted(input) == ~input.no_verification

\* Variant: the result of the verification is not looked at.
after_verification_ignored(ok) == "db_setup"

\* verify_impl(..).await?
after_verification(ok) == IF ok THEN "db_setup" ELSE "returned"

BuildErr(what) == [tag |-> "Err", error |-> what]

\* Longest env argument that is explored.
MaxArgLen == 3

\* Largest number of env arguments.
MaxEnvArgs == 1

\* The characters of the env arguments.
Chars == {"A", "1", "="}

\* The positions of the separator in a string.
Separators(str, sep) == {i \in 1..Len(str) : str[i] = sep}

\* str::split(sep): the pieces between the separators, empty ones included.
RECURSIVE split(_, _)
split(str, sep) ==
    IF Separators(str, sep) = {} THEN <<str>>
    ELSE LET i == Min(Separators(str, sep))
         IN  <<SubSeq(str, 1, i - 1)>> \o split(SubSeq(str, i + 1, Len(str)), sep)

\* The closure at lines 92-98: v.get(0) is the key, v.get(1) the value.
parse_env(str) ==
    LET v == split(str, "=")
    IN  IF Len(v) >= 2 THEN [tag |-> "Ok", key |-> v[1], value |-> v[2]]
        ELSE [tag |-> "Err"]

\* .collect::<Result<Vec<(String, String)>>>()
parse_all(args) ==
    IF \E i \in 1..Len(args) : parse_env(args[i]).tag = "Err"
    THEN [tag |-> "Err"]
    ELSE [tag |-> "Ok",
          pairs |-> [i \in 1..Len(args) |->
                       <<parse_env(args[i]).key, parse_env(args[i]).value>>]]

InitBuild ==
    /\ jobtree = <<{}>>
    /\ Prepared
    /\ endpoint_config = 0
    /\ SchedulerNotStarted
    /\ LogIdle
    /\ ReuseIdle
    /\ \/ \E n \in 1..MaxPackages :
             build_input \in [no_verification : BOOLEAN, env : {<<>>},
                              sources : [1..n -> SourceStates]]
       \/ build_input \in [no_verification : {FALSE},
                            env : SeqsUpTo(SeqsUpTo(Chars, MaxArgLen), MaxEnvArgs),
                            sources : {<<"ok">>}]
    /\ TreeIdle
    /\ DepIdle
    /\ build_pc = "start"
    /\ additional_env = <<>>
    /\ verified = {}
    /\ db_rows = {}
    /\ build_result = None

\* Lines 47-88: image check, repository head, endpoint configurations;
\* the first two can return an error.
BuildPrepare ==
    /\ build_pc = "start"
    /\ \E prepared \in BOOLEAN :
          IF prepared
          THEN /\ build_pc' = "overlay"
               /\ UNCHANGED build_result
          ELSE /\ build_pc' = "returned"
               /\ build_result' = BuildErr("prepare")
    /\ UNCHANGED <<build_input, additional_env, verified, db_rows>>

\* Lines 90-99: the env arguments are parsed, an error returns by `?`.
BuildOverlay ==
    /\ build_pc = "overlay"
    /\ LET parsed == parse_all(build_input.env)
       IN  IF parsed.tag = "Ok"
           THEN /\ additional_env' = parsed.pairs
                /\ build_pc' = "load"
                /\ UNCHANGED build_result
           ELSE /\ build_pc' = "returned"
                /\ build_result' = BuildErr("overlay")
                /\ UNCHANGED additional_env
    /\ UNCHANGED <<build_input, verified, db_rows>>

\* Lines 101-168: package lookup, release and staging stores, tree; each
\* can return an error.
BuildLoad ==
    /\ build_pc = "load"
    /\ \E loaded \in BOOLEAN :
          IF loaded
          THEN /\ build_pc' = IF verification_wanted(build_input)
                              THEN "verify" ELSE "db_setup"
               /\ UNCHANGED build_result
          ELSE /\ build_pc' = "returned"
               /\ build_result' = BuildErr("load")
    /\ UNCHANGED <<build_input, additional_env, verified, db_rows>>

\* verify_impl looks at the source of one more package.
BuildVerifyPackage(p) ==
    /\ build_pc = "verify"
    /\ p \in Packages \ verified
    /\ verified' = verified \cup {p}
    /\ UNCHANGED <<build_input, build_pc, additional_env, db_rows, build_result>>

\* verify_impl returns and its result is unwrapped.
BuildVerifyReturn ==
    /\ build_pc = "verify"
    /\ verified = Packages
    /\ build_pc' = after_verification(verify_impl(build_input.sources))
    /\ build_result' = IF build_pc' = "returned" THEN BuildErr("verification")
                       ELSE build_result
    /\ UNCHANGED <<build_input, additional_env, verified, db_rows>>

\* Lines 178-203: Package, GitHash, Image and EnvVar rows, joined, then `?`.
BuildDbSetup ==
    /\ build_pc = "db_setup"
    /\ \E written \in SUBSET {"Package", "GitHash", "Image", "EnvVar"} :
          /\ db_rows' = db_rows \cup written
          /\ IF written = {"Package", "GitHash", "Image", "EnvVar"}
             THEN /\ build_pc' = "submit"
                  /\ UNCHANGED build_result
             ELSE /\ build_pc' = "returned"
                  /\ build_result' = BuildErr("database")
    /\ UNCHANGED <<build_input, additional_env, verified>>

\* Submit::create(..)?
BuildSubmit ==
    /\ build_pc = "submit"
    /\ \E created \in BOOLEAN :
          IF created
          THEN /\ db_rows' = db_rows \cup {"Submit"}
               /\ build_pc' = "orchestrator_setup"
               /\ UNCHANGED build_result
          ELSE /\ build_pc' = "returned"
               /\ build_result' = BuildErr("submit")
               /\ UNCHANGED db_rows
    /\ UNCHANGED <<build_input, additional_env, verified>>

\* JobSet::sets_from_tree(..)? and OrchestratorSetup .. .setup().await?
BuildOrchestratorSetup ==
    /\ build_pc = "orchestrator_setup"
    /\ \E ready \in BOOLEAN :
          IF ready
          THEN /\ build_pc' = "orchestrator_run"
               /\ UNCHANGED build_result
          ELSE /\ build_pc' = "returned"
               /\ build_result' = BuildErr("orchestrator setup")
    /\ UNCHANGED <<build_input, additional_env, verified, db_rows>>

\* orch.run().await?: jobs are run, which write Job rows.
BuildOrchestratorRun ==
    /\ build_pc = "orchestrator_run"
    /\ \E ran \in BOOLEAN, jobs \in BOOLEAN :
          /\ db_rows' = IF jobs THEN db_rows \cup {"Job"} ELSE db_rows
          /\ build_result' = IF ran THEN [tag |-> "Ok"] ELSE BuildErr("run")
    /\ build_pc' = "returned"
    /\ UNCHANGED <<build_input, additional_env, verified>>

NextBuild ==
    \/ BuildPrepare /\ UNCHANGED <<ovars, svars, lvars, rvars, tvars, dvars>>
    \/ BuildOverlay /\ UNCHANGED <<ovars, svars, lvars, rvars, tvars, dvars>>
    \/ BuildLoad /\ UNCHANGED <<ovars, svars, lvars, rvars, tvars, dvars>>
    \/ \E p \in Packages : BuildVerifyPackage(p) /\ UNCHANGED <<ovars, svars, lvars, rvars, tvars, dvars>>
    \/ BuildVerifyReturn /\ UNCHANGED <<ovars, svars, lvars, rvars, tvars, dvars>>
    \/ BuildDbSetup /\ UNCHANGED <<ovars, svars, lvars, rvars, tvars, dvars>>
    \/ BuildSubmit /\ UNCHANGED <<ovars, svars, lvars, rvars, tvars, dvars>>
    \/ BuildOrchestratorSetup /\ UNCHANGED <<ovars, svars, lvars, rvars, tvars, dvars>>
    \/ BuildOrchestratorRun /\ UNCHANGED <<ovars, svars, lvars, rvars, tvars, dvars>>

SpecBuild == InitBuild /\ [][NextBuild]_vars

----------------------------------------------------------------------------
(* The dependency walk of tree-of (src/commands/tree_of.rs)                *)

\* Largest number of packages in the repository.
MaxTreePkgs == 2

\* The names of packages; a name stands for a name with its constraint.
PkgNames == {"a", "b"}

\* A dependency and what check_condition and the parser make of it.
Deps(conds) == [name : PkgNames, cond : conds]

\* The lists of build or runtime dependencies a package declares.
DepLists(conds) == {<<>>} \cup {<<d>> : d \in Deps(conds)}

\* process: check_condition(..)?, parse_as_name_and_version()?
process(d, dependency_type) ==
    IF d.cond = "error" THEN [tag |-> "Err"]
    ELSE [tag |-> "Ok", take |-> d.cond = "take", name |-> d.name,
          type |-> dependency_type]

\* Variant: dependencies whose condition does not match are kept.
keep_all(res) == TRUE

\* The filter at lines 126-130.
keep(res) == res.tag = "Err" \/ res.take

\* get_package_dependencies: build chained with runtime, then the filter.
get_package_dependencies(package) ==
    LET build   == tree_input.build[package]
        runtime == tree_input.runtime[package]
    IN  SelectSeq([i \in 1..Len(build) |-> process(build[i], "BUILDTIME")]
                  \o [i \in 1..Len(runtime) |-> process(runtime[i], "RUNTIME")],
                  keep)

\* Repository::find_with_version: the packages that satisfy the dependency.
find_with_version(name) ==
    {p \in DOMAIN tree_input.names : tree_input.names[p] = name}

\* A call of build_dependencies_tree: line 135 and `let mut d = Vec::new()`
Frame(p, dep_type) ==
    [pkg |-> p, deps |-> get_package_dependencies(p), d |-> <<>>,
     type |-> dep_type]

TreeOk(tree) == [tag |-> "Ok", tree |-> tree]

\* A panic of the walk.
TreeAbort(what) == [tag |-> "Abort", error |-> what]

\* tree_of calls build_dependencies_tree for package 1 of the repository.
InitTree ==
    /\ jobtree = <<{}>>
    /\ Prepared
    /\ endpoint_config = 0
    /\ SchedulerNotStarted
    /\ LogIdle
    /\ ReuseIdle
    /\ BuildIdle
    /\ DepIdle
    /\ \/ \E n \in 1..MaxTreePkgs :
             tree_input \in [names : [1..n -> PkgNames],
                             build : [1..n -> DepLists({"take", "skip"})],
                             runtime : [1..n -> DepLists({"take", "skip"})]]
       \/ tree_input \in [names : {<<"a">>},
                          build : {<<l>> : l \in DepLists({"skip", "error"})},
                          runtime : {<<l>> : l \in DepLists({"take", "error"})}]
    /\ tree_stack = <<Frame(1, "BUILDTIME")>>
    /\ resolved = {}
    /\ tree_result = None

\* One iteration of the loop at lines 138-162 up to the recursive call.
TreeResolve ==
    /\ tree_result = None
    /\ tree_stack # <<>>
    /\ LET top   == Len(tree_stack)
           frame == tree_stack[top]
       IN  /\ frame.deps # <<>>
           /\ LET dep == Head(frame.deps)
              IN  IF dep.tag = "Err"
                  THEN /\ tree_result' = TreeAbort("unwrap")
                       /\ UNCHANGED <<tree_stack, resolved>>
                  ELSE LET pkgs == find_with_version(dep.name)
                       IN  /\ resolved' = resolved \cup
                                {[of |-> frame.pkg, name |-> dep.name,
                                  take |-> dep.take, pkgs |-> pkgs]}
                           /\ IF pkgs = {}
                              THEN /\ tree_result' = TreeAbort("dep not found")
                                   /\ UNCHANGED tree_stack
                              ELSE IF Cardinality(pkgs) # 1
                              THEN /\ tree_result' = TreeAbort("assert")
                                   /\ UNCHANGED tree_stack
                              ELSE IF top >= Len(tree_input.names)
                              THEN \* a package is walked again below itself:
                                   \* the recursion never returns
                                   /\ tree_result' = TreeAbort("stack overflow")
                                   /\ UNCHANGED tree_stack
                              ELSE /\ tree_stack' =
                                        Append([tree_stack EXCEPT
                                                  ![top].deps = Tail(frame.deps)],
                                               Frame(CHOOSE q \in pkgs : TRUE,
                                                     dep.type))
                                   /\ UNCHANGED tree_result
    /\ UNCHANGED tree_input

\* Lines 163-172 and 161: the node is returned and pushed to the caller's d.
TreeReturn ==
    /\ tree_result = None
    /\ tree_stack # <<>>
    /\ LET top   == Len(tree_stack)
           frame == tree_stack[top]
           tree  == [name |-> tree_input.names[frame.pkg],
                     dependencies |-> frame.d]
       IN  /\ frame.deps = <<>>
           /\ IF top = 1
              THEN /\ tree_result' = TreeOk(tree)
                   /\ tree_stack' = <<>>
              ELSE /\ tree_stack' =
                        [SubSeq(tree_stack, 1, top - 1) EXCEPT
                           ![top - 1].d = Append(@, [node |-> tree,
                                                     type |-> frame.type])]
                   /\ UNCHANGED tree_result
    /\ UNCHANGED <<tree_input, resolved>>

NextTree ==
    \/ TreeResolve /\ UNCHANGED <<ovars, svars, lvars, rvars, bvars, dvars>>
    \/ TreeReturn /\ UNCHANGED <<ovars, svars, lvars, rvars, bvars, dvars>>

SpecTree == InitTree /\ [][NextTree]_vars

----------------------------------------------------------------------------
(* The parser of dependency strings (src/package/dependency/mod.rs)        *)

\* Longest dependency string that is explored.
MaxDepLen == 4

\* Characters of the classes of DEPENDENCY_PARSING_RE, and the space.
Alpha == {"v"}

Digit == {"1"}

Punct == {"=", ">", "-"}

DepChars == Alpha \cup Digit \cup Punct \cup {" "}

Alnum == Alpha \cup Digit

\* Variant: the name may begin with any character of a name.
name_re_any_first(str) ==
    /\ str # <<>>
    /\ \A i \in 1..Len(str) : str[i] \in Alnum \cup {"-", "_"}

\* (?P<name>[[:alpha:]]([[[:alnum:]]-_])*)
name_re(str) ==
    /\ str # <<>>
    /\ str[1] \in Alpha
    /\ \A i \in 2..Len(str) : str[i] \in Alnum \cup {"-", "_"}

\* (?P<version>([\*=><])?[[:alnum:]]([[[:alnum:]][[:punct:]]])*)
version_re(str) ==
    LET rest == IF str # <<>> /\ str[1] \in {"*", "=", ">", "<"}
                THEN Tail(str) ELSE str
    IN  /\ rest # <<>>
        /\ rest[1] \in Alnum
        /\ \A i \in 2..Len(rest) : rest[i] \in Alnum \cup Punct

\* DEPENDENCY_PARSING_RE.captures: the places of the space between a name
\* and a version that together are the whole string.
captures(str) ==
    {i \in 1..Len(str) : /\ str[i] = " "
                         /\ name_re(SubSeq(str, 1, i - 1))
                         /\ version_re(SubSeq(str, i + 1, Len(str)))}

DepErr == [tag |-> "Err"]

DepOk(name, constraint) ==
    [tag |-> "Ok", name |-> name, constraint |-> constraint]

\* PackageVersionConstraint::parse: '=' is Exact, '>' is HigherAs; what it
\* makes of a version without one of the two is left open.
constraint_parse(vers) ==
    IF vers[1] = "=" THEN {[tag |-> "Exact", version |-> Tail(vers)]}
    ELSE IF vers[1] = ">" THEN {[tag |-> "HigherAs", version |-> Tail(vers)]}
    ELSE {DepErr, [tag |-> "Other", version |-> vers]}

\* parse_package_dependency_string_into_name_and_version
parse_dependency(str) ==
    IF captures(str) = {} THEN {DepErr}
    ELSE LET i == CHOOSE k \in captures(str) : TRUE
         IN  {IF c = DepErr THEN DepErr ELSE DepOk(SubSeq(str, 1, i - 1), c) :
                 c \in constraint_parse(SubSeq(str, i + 1, Len(str)))}

InitDep ==
    /\ jobtree = <<{}>>
    /\ Prepared
    /\ endpoint_config = 0
    /\ SchedulerNotStarted
    /\ LogIdle
    /\ ReuseIdle
    /\ BuildIdle
    /\ TreeIdle
    /\ dep_input \in SeqsUpTo(DepChars, MaxDepLen)
    /\ dep_result = None

\* parse_as_name_and_version of a dependency
DepParse ==
    /\ dep_result = None
    /\ dep_result' \in parse_dependency(dep_input)
    /\ UNCHANGED dep_input

NextDep ==
    \/ DepParse /\ UNCHANGED <<ovars, svars, lvars, rvars, bvars, tvars>>

SpecDep == InitDep /\ [][NextDep]_vars

----------------------------------------------------------------------------
(* Helpers of the properties                                               *)

Elements(seq) == {seq[i] : i \in 1..Len(seq)}

RECURSIVE TotalLen(_)
TotalLen(list) ==
    IF list = <<>> THEN 0 ELSE Len(Head(list)[2]) + TotalLen(Tail(list))

Leaves == {t \in Nodes : jobtree[t] = {}}

JobRan(t) == job_result[t].tag # "None"

JobSucceeded(t) == job_result[t].tag = "Ok"

JobFailed(t) == job_result[t].tag = "Err"

FailedJobs == {t \in Nodes : JobFailed(t)}

\* Root R = 1 depends on L1 = 2 and L2 = 3.
SiblingTree == [j \in 1..3 |-> IF j = 1 THEN {2, 3} ELSE {}]

\* C = 1 depends on B = 2, B depends on A = 3.
ChainTree == [j \in 1..3 |-> IF j = 3 THEN {} ELSE {j + 1}]

----------------------------------------------------------------------------
\* C1: a task reaches the scheduler only with an Ok result of every
\* dependency in received_dependencies (each being the message that
\* dependency sent after its job succeeded) and without a received error; a
\* task without dependencies never waits on its inbox and receives nothing.
C1_ScheduleOnlyAfterAllDependencies ==
    \A t \in Nodes :
        /\ (pc[t] \in {"schedule", "run"} \/ JobRan(t)) =>
              /\ received_errors[t] = <<>>
              /\ \A d \in jobtree[t] :
                    /\ JobSucceeded(d)
                    /\ \E i \in 1..Len(received_dependencies[t]) :
                          /\ received_dependencies[t][i][1] = d
                          /\ sent[d] = <<OkMsg(d, received_dependencies[t][i][2])>>
        /\ jobtree[t] = {} =>
              /\ pc[t] # "recv"
              /\ received_dependencies[t] = <<>>

C1_Witness ==
    \E t \in Nodes :
        /\ Cardinality(jobtree[t]) >= 2
        /\ pc[t] = "run"
        /\ \E l \in Leaves : JobRan(l) /\ pc[l] = "done"

\* C2: a task that received an error list has sent exactly that list (the
\* one a dependency sent) as its only message, has not run its job, and its
\* future returned Ok(()); when its outbox is the root channel the list is
\* what the root channel holds or delivered.
C2_ErrorsForwardedUnchanged ==
    \A t \in Nodes :
        received_errors[t] # <<>> =>
            /\ pc[t] = "done"
            /\ task_result[t] = "ok"
            /\ ~JobRan(t)
            /\ sent[t] = <<ErrMsg(received_errors[t])>>
            /\ \E c \in jobtree[t] :
                  /\ Len(sent[c]) = 1
                  /\ sent[c][1].tag = "Err"
                  /\ sent[c][1].errors = received_errors[t]
            /\ sender[t] = ROOT =>
                  \/ root_chan = <<ErrMsg(received_errors[t])>>
                  \/ /\ root_recv.tag = "Err"
                     /\ root_recv.errors = received_errors[t]

C2_Witness ==
    \E t \in Nodes :
        /\ sender[t] # ROOT
        /\ received_errors[t] # <<>>
        /\ received_dependencies[t] # <<>>
        /\ received_errors[sender[t]] = received_errors[t]

\* C3 (as claimed): when only leaf jobs failed, k of them, and every task
\* future returned Ok, the error list delivered by the root channel has
\* exactly k entries, one (uuid, error) per failed leaf.
C3_OneEntryPerFailedLeaf ==
    ( /\ orch_pc = "returned"
      /\ FailedJobs # {}
      /\ FailedJobs \subseteq Leaves
      /\ \A t \in Nodes : task_result[t] = "ok" ) =>
        /\ root_recv.tag = "Err"
        /\ Len(root_recv.errors) = Cardinality(FailedJobs)
        /\ Elements(root_recv.errors) = {<<l, job_result[l].error>> : l \in FailedJobs}

\* C4 (as claimed): in scenario S3 (R depends on L1 and L2, L1 succeeded,
\* L2 failed with E) the run returns ([], [(L2, E)]) and the job of R did
\* not run.
C4_SiblingFailureResult ==
    ( /\ orch_pc = "returned"
      /\ jobtree = SiblingTree
      /\ JobSucceeded(2)
      /\ JobFailed(3) ) =>
        /\ ~JobRan(1)
        /\ result.tag = "Ok"
        /\ result.artifacts = <<>>
        /\ result.errors = <<<<3, job_result[3].error>>>>

\* C5 (as claimed): a task whose sibling's job failed and which ran its own
\* job did not fail itself, and when its own job failed too, the message of
\* the common parent carries the errors of both.
C5_SiblingsUnaffected ==
    \A a \in Nodes : \A b \in Nodes \ {a} :
        ( /\ sender[a] = sender[b]
          /\ sender[a] # ROOT
          /\ JobFailed(a)
          /\ JobRan(b) ) =>
            /\ task_result[b] # "err"
            /\ (JobFailed(b) /\ sent[sender[a]] # <<>>) =>
                  /\ sent[sender[a]][1].tag = "Err"
                  /\ {<<a, job_result[a].error>>, <<b, job_result[b].error>>}
                        \subseteq Elements(sent[sender[a]][1].errors)

\* C6: when the run has returned and the job of every node succeeded, the
\* returned artifacts are exactly the artifacts of all nodes, each once,
\* and no error is returned.
C6_ArtifactClosure ==
    (orch_pc = "returned" /\ \A t \in Nodes : JobSucceeded(t)) =>
        /\ result.tag = "Ok"
        /\ result.errors = <<>>
        /\ Elements(result.artifacts) =
              UNION {Elements(job_result[t].artifacts) : t \in Nodes}
        /\ Len(result.artifacts) = Cardinality(Elements(result.artifacts))

C6_Witness ==
    /\ orch_pc = "returned"
    /\ Cardinality(Nodes) >= 3
    /\ \A t \in Nodes : JobSucceeded(t) /\ job_result[t].artifacts # <<>>

\* C7: a task whose job succeeded has sent exactly one message,
\* Ok((own uuid, L)); L starts with the artifacts of the own job, followed
\* by the list of every received dependency, in the order of receipt, each
\* list (as sent by that dependency) in its own order.
C7_OwnThenDependenciesInReceiveOrder ==
    \A t \in Nodes :
        JobSucceeded(t) =>
            /\ Len(sent[t]) = 1
            /\ sent[t][1].tag = "Ok"
            /\ sent[t][1].uuid = t
            /\ LET L   == sent[t][1].artifacts
                   own == job_result[t].artifacts
                   rd  == received_dependencies[t]
               IN  /\ Len(L) = Len(own) + TotalLen(rd)
                   /\ \A m \in 1..Len(own) : L[m] = own[m]
                   /\ \A i \in 1..Len(rd) :
                         /\ sent[rd[i][1]] = <<OkMsg(rd[i][1], rd[i][2])>>
                         /\ \A m \in 1..Len(rd[i][2]) :
                               L[Len(own) + TotalLen(SubSeq(rd, 1, i - 1)) + m]
                                  = rd[i][2][m]

C7_Witness ==
    \E t \in Nodes :
        /\ JobSucceeded(t)
        /\ job_result[t].artifacts # <<>>
        /\ Len(received_dependencies[t]) >= 2
        /\ received_dependencies[t][1][1] > received_dependencies[t][2][1]
        /\ Len(received_dependencies[t][1][2]) >= 2
        /\ Len(received_dependencies[t][2][2]) >= 1

\* C8 (as claimed): for the chain C <- B <- A with all jobs succeeding the
\* returned list is A's artifacts, then B's, then C's.
C8_ChainDependenciesFirst ==
    ( /\ orch_pc = "returned"
      /\ jobtree = ChainTree
      /\ \A t \in Nodes : JobSucceeded(t) ) =>
        /\ result.tag = "Ok"
        /\ result.artifacts = job_result[3].artifacts \o job_result[2].artifacts
                                 \o job_result[1].artifacts

\* C8 (amended): for the chain C <- B <- A with all jobs succeeding the
\* returned list is C's artifacts, then B's, then A's.
C8_ChainDependentsFirst ==
    ( /\ orch_pc = "returned"
      /\ jobtree = ChainTree
      /\ \A t \in Nodes : JobSucceeded(t) ) =>
        /\ result.tag = "Ok"
        /\ result.errors = <<>>
        /\ result.artifacts = job_result[1].artifacts \o job_result[2].artifacts
                                 \o job_result[3].artifacts

C8_Witness ==
    /\ orch_pc = "returned"
    /\ jobtree = ChainTree
    /\ \A t \in Nodes : JobSucceeded(t) /\ Len(job_result[t].artifacts) = 1

\* C9: a task whose job failed has sent exactly one message, the Err with
\* the single entry (own uuid, error of the job), and no Ok message.
C9_OwnFailureMessage ==
    \A t \in Nodes :
        JobFailed(t) => sent[t] = <<ErrMsg(<<<<t, job_result[t].error>>>>)>>

C9_Witness ==
    \E t \in Nodes :
        /\ JobFailed(t)
        /\ received_dependencies[t] # <<>>
        /\ received_dependencies[t][1][2] # <<>>
        /\ sender[t] # ROOT

----------------------------------------------------------------------------
\* C11 (as claimed): when the run returns an error list, the returned
\* artifact list holds the artifacts of every job that was built
\* successfully.
C11_PartialSuccessReturned ==
    (orch_pc = "returned" /\ result.tag = "Ok" /\ result.errors # <<>>) =>
        \A t \in Nodes :
            JobSucceeded(t) =>
                Elements(job_result[t].artifacts) \subseteq Elements(result.artifacts)

\* C11 (amended): when a job failed and the run returns its pair, the
\* artifact list is empty whatever was built successfully, and the error
\* list is not empty and names only failed jobs with their errors.
C11_ErrorsWithoutArtifacts ==
    (orch_pc = "returned" /\ result.tag = "Ok" /\ FailedJobs # {}) =>
        /\ result.artifacts = <<>>
        /\ result.errors # <<>>
        /\ \A i \in 1..Len(result.errors) :
              /\ result.errors[i][1] \in FailedJobs
              /\ result.errors[i][2] = job_result[result.errors[i][1]].error

C11_Witness ==
    /\ orch_pc = "returned"
    /\ result.tag = "Ok"
    /\ FailedJobs # {}
    /\ \E t \in Nodes : JobSucceeded(t) /\ job_result[t].artifacts # <<>>

\* C12 (as claimed): once the root task (node 1) has ended without having
\* sent a message, the run eventually returns the fatal error
\* "No result received...".
C12_RootAbandonedReported ==
    (pc[1] \in Finished /\ sent[1] = <<>>)
        ~> (orch_pc = "returned" /\ result.tag = "Fatal"
                                 /\ result.error = "No result received...")

\* A task that returned the error of the None arm: its inbox was closed
\* while a declared dependency was missing.
DependenciesAbandoned(t) ==
    /\ task_result[t] = "err"
    /\ missing_deps(jobtree[t], received_dependencies[t]) # {}

\* C13 (as claimed): a task that failed with DependenciesAbandoned shows up
\* as an entry of the error list the run returns; the run itself does not
\* fail.
C13_AbandonedInErrorList ==
    \A t \in Nodes :
        (DependenciesAbandoned(t) /\ orch_pc = "returned") =>
            /\ result.tag = "Ok"
            /\ \E i \in 1..Len(result.errors) : result.errors[i][1] = t

\* C14: after wiring a tree, the outbox of every node that is listed as a
\* dependency is the inbox of the node listing it, and node 1, listed by
\* none, is the only task whose outbox is the root channel.
C14_WiredToParent ==
    orch_pc # "setup" =>
        /\ \A t \in Nodes :
              IF \E j \in Nodes : t \in jobtree[j]
              THEN sender[t] # ROOT /\ t \in jobtree[sender[t]]
              ELSE sender[t] = ROOT
        /\ {t \in Nodes : sender[t] = ROOT} = {1}

C14_Witness ==
    /\ orch_pc = "join"
    /\ Cardinality(Nodes) = 4
    /\ \E t \in Nodes : sender[t] # ROOT /\ sender[sender[t]] # ROOT
    /\ \E t \in Nodes : Cardinality(jobtree[t]) = 2

----------------------------------------------------------------------------
\* C15: the endpoint schedule_job chose reported a load that is minimal
\* among the loads collected in that round; with the reports
\* (E1: 3, E2: 1) it is E2, and with (E1: 3, E2: 2) it is E2 again.
C15_LeastLoadedSelected ==
    \A j \in Jobs :
        Scheduled(j) =>
            /\ selected[j] \in LeastLoaded(j)
            /\ Reported(j) = EndpointIds
            /\ {polls[j][i] : i \in 1..Len(polls[j])} = {<<3, 1>>, <<1, 2>>}
                  => selected[j] = 2
            /\ {polls[j][i] : i \in 1..Len(polls[j])} = {<<3, 1>>, <<2, 2>>}
                  => selected[j] = 2

C15_Witness ==
    /\ Scheduled(1)
    /\ Scheduled(2)
    /\ polls[1] = <<<<3, 1>>, <<1, 2>>>>
    /\ polls[2] = <<<<2, 2>>, <<3, 1>>>>
    /\ selected[1] = 2

\* C16 (as claimed): when several endpoints reported the minimal load, the
\* one declared first is chosen, whatever the order the polls completed in.
C16_TieToFirstDeclared ==
    \A j \in Jobs : Scheduled(j) => selected[j] = Min(LeastLoaded(j))

\* C17 (as claimed): schedule_job never returns an error because of a
\* failed load poll.
C17_PollFailureNotAnError ==
    \A j \in Jobs : job_pc[j] # "failed"

\* C18 (as claimed): setup fails only when no endpoint was set up
\* successfully, and a scheduler that was set up has at least one endpoint.
C18_SetupToleratesEndpointFailure ==
    /\ sched_pc = "failed" => \A e \in EndpointIds : ep_setup[e] # "ok"
    /\ sched_pc = "ready" => endpoints # <<>>

\* C19 (as claimed): no endpoint lock is ever held by a writer while jobs
\* are selected and run.
C19_OnlyReadLeases ==
    \A e \in EndpointIds : lock[e].writer = 0

\* C20 (as claimed): every job whose container run returned, successfully
\* or not, has a Job row.
C20_JobRowForEveryExecutedJob ==
    \A j \in Jobs : container_result[j] # "none" => j \in ledger

----------------------------------------------------------------------------
\* The lines of a log: every rendered item followed by one newline.
RECURSIVE LinesOf(_)
LinesOf(items) ==
    IF items = <<>> THEN <<>>
    ELSE display(Head(items)) \o <<NL>> \o LinesOf(Tail(items))

\* C21: when the log receiver returns Ok, its string is the rendered items
\* of the run joined by newlines in the order they were sent (the lines of
\* the log without the last newline), and the log file, when there is
\* one, holds every rendered item followed by one newline, in that order.
C21_LogRoundTrip ==
    join_result.tag = "Ok" =>
        /\ log_input.items = <<>> => join_result.text = <<>>
        /\ log_input.items # <<>> =>
              join_result.text \o <<NL>> = LinesOf(log_input.items)
        /\ log_input.log_dir => logfile = LinesOf(log_input.items)

C21_Witness ==
    /\ join_result.tag = "Ok"
    /\ log_input.log_dir
    /\ Len(log_input.items) = 2
    /\ log_input.items[1].kind = "Progress"
    /\ log_input.items[2].kind = "Line"

\* C22: when the log receiver failed (open, write or flush), JobHandle::run
\* returns an error whatever the container run returned, no Job row is
\* written, and the message of the task is Err with the one entry
\* (own uuid, that error).
C22_LogFailureFailsJob ==
    (join_result.tag = "Err" /\ handle_result # None) =>
        /\ handle_result.tag = "Err"
        /\ job_row = None
        /\ task_msg # None =>
              task_msg = ErrMsg(<<<<1, handle_result.error>>>>)

C22_Witness ==
    /\ join_result.tag = "Err"
    /\ run_job_result.tag = "Ok"
    /\ task_msg # None
    /\ task_msg.tag = "Err"

----------------------------------------------------------------------------
(* The reuse query                                                         *)

\* The environment of the candidate: package environment and overlay.
CandidateEnv(req) ==
    Elements(IF req.pkg.environment = None THEN <<>>
             ELSE req.pkg.environment.value)
    \cup Elements(req.additional_env)

\* The rows of the ledger an entry of the result can come from.
RowsOf(entry) ==
    {k \in 1..Len(request.ledger) : request.ledger[k].path = entry.path}

Returned ==
    IF reuse_result.tag = "Ok" THEN Elements(reuse_result.list) ELSE {}

\* C23 (as claimed): an artifact is returned only if the environment of
\* the job that produced it is a subset of the environment of the
\* candidate, for every package; so a job recorded with {A=1} is not
\* returned for a candidate whose environment lacks A=1.
C23_HistoricalEnvSubset ==
    \A entry \in Returned :
        \E k \in RowsOf(entry) :
            Elements(request.ledger[k].env) \subseteq CandidateEnv(request)

\* The orders a list without repeated entries can be given in.
Perms(l) == {p \in [1..Len(l) -> Elements(l)] : Elements(p) = Elements(l)}

\* The same query with every environment listed in another order.
Reordered(req) ==
    {[req EXCEPT !.pkg.environment = e, !.additional_env = o, !.ledger = l] :
        e \in (IF req.pkg.environment = None THEN {None}
               ELSE {Some(m) : m \in Perms(req.pkg.environment.value)}),
        o \in Perms(req.additional_env),
        l \in {[k \in 1..Len(req.ledger) |-> [req.ledger[k] EXCEPT !.env = f[k]]] :
                 f \in {g \in [1..Len(req.ledger) ->
                                 UNION {Perms(req.ledger[k].env) :
                                           k \in 1..Len(req.ledger)}] :
                           \A k \in 1..Len(req.ledger) :
                               g[k] \in Perms(req.ledger[k].env)}}}

\* C24: the result of a query is the result of the same query with the
\* package environment, the overlay and the environments of the ledger
\* jobs listed in any other order.
C24_EnvOrderIrrelevant ==
    reuse_result.tag = "Ok" =>
        \A other \in Reordered(request) : find_artifacts(other) = reuse_result

C24_Witness ==
    /\ reuse_result.tag = "Ok"
    /\ reuse_result.list # <<>>
    /\ request.pkg.environment = Some(<<<<"B", "2">>>>)
    /\ request.additional_env = <<<<"A", "1">>, <<"A", "2">>>>
    /\ request.ledger[1].env = <<<<"B", "2">>, <<"A", "2">>>>

\* A store holds the path.
Stored(req, path) ==
    \/ req.staging_store # None /\ path \in req.staging_store.value
    \/ \E i \in 1..Len(req.release_stores) : path \in req.release_stores[i]

\* The first store that holds the path: staging, then release in order.
FirstStore(req, path) ==
    IF req.staging_store # None /\ path \in req.staging_store.value
    THEN STAGING
    ELSE Min({i \in 1..Len(req.release_stores) : path \in req.release_stores[i]})

C26_ReleasePreferred ==
    \A entry \in Returned :
        (/\ request.staging_store # None
         /\ entry.path \in request.staging_store.value
         /\ \E i \in 1..Len(request.release_stores) :
               entry.path \in request.release_stores[i])
        => entry.root # STAGING

\* C27: a finished query fails only for a script or database error, never
\* for a file that is in no store: such rows are left out of the result,
\* which may be empty.
C27_MissingFilesSkipped ==
    reuse_pc = "done" =>
        /\ reuse_result.tag = "Err" => reuse_result.error \in {"script", "database"}
        /\ \A entry \in Returned : Stored(request, entry.path)

C27_Witness ==
    /\ reuse_pc = "done"
    /\ reuse_result = [tag |-> "Ok", list |-> <<>>]
    /\ Len(candidates) = 2
    /\ request.staging_store = Some({})

\* C28: every returned artifact comes from a job whose image is in the
\* allowed_images of the package, when declared, and not in its
\* denied_images, when declared.
C28_ImageAllowedNotDenied ==
    \A entry \in Returned :
        \E k \in RowsOf(entry) :
            /\ request.pkg.allowed_images # None =>
                  request.ledger[k].image \in request.pkg.allowed_images.value
            /\ request.pkg.denied_images # None =>
                  request.ledger[k].image \notin request.pkg.denied_images.value

C28_Witness ==
    /\ reuse_result.tag = "Ok"
    /\ request.pkg.allowed_images = Some({"i1", "i2"})
    /\ request.pkg.denied_images = Some({"i2"})
    /\ Len(request.ledger) = 2
    /\ request.ledger[1].image = "i2"
    /\ request.ledger[2].image = "i1"
    /\ request.ledger[1].package = "p"
    /\ {entry.path : entry \in Returned} = {2}

\* The ledger with other script texts recorded for its jobs.
Rescripted(req) ==
    {[req EXCEPT !.ledger = [k \in 1..Len(req.ledger) |->
                               [req.ledger[k] EXCEPT !.script = f[k]]]] :
        f \in [1..Len(req.ledger) -> Scripts]}

\* C29: with the script filter on, every returned artifact comes from a
\* job whose script text equals the script of the candidate; with the
\* filter off, the result is the same whatever script texts are recorded.
C29_ScriptFilter ==
    reuse_result.tag = "Ok" =>
        /\ request.script_filter =>
              \A entry \in Returned :
                  \E k \in RowsOf(entry) : request.ledger[k].script = request.script
        /\ ~request.script_filter =>
              \A other \in Rescripted(request) : find_artifacts(other) = reuse_result

C29_Witness ==
    /\ reuse_result.tag = "Ok"
    /\ request.script_filter
    /\ Len(request.ledger) = 2
    /\ request.ledger[1].script = "s2"
    /\ request.ledger[2].script = "s1"
    /\ request.ledger[1].package = "p"
    /\ request.ledger[1].image = "i1"
    /\ request.pkg.allowed_images = None
    /\ request.pkg.denied_images = None
    /\ {entry.path : entry \in Returned} = {2}

----------------------------------------------------------------------------
(* The build command                                                       *)

\* The orchestrator has been set up, or is past that.
OrchestratorStarted ==
    \/ build_pc = "orchestrator_run"
    \/ build_result = [tag |-> "Ok"]
    \/ build_result = [tag |-> "Err", error |-> "run"]

\* C30: unless no_verification is set, the Submit row is written and the
\* orchestrator is set up only after the source of every package of the
\* closure was verified; when the source of a package does not verify, the
\* orchestrator is never started, no Submit or Job row is written and the
\* build returns an error.
C30_VerificationBeforeSubmit ==
    ~build_input.no_verification =>
        /\ ("Submit" \in db_rows \/ build_pc = "orchestrator_setup"
               \/ OrchestratorStarted)
           => /\ verified = Packages
              /\ \A p \in Packages : build_input.sources[p] = "ok"
        /\ (\E p \in Packages : build_input.sources[p] # "ok")
           => /\ ~OrchestratorStarted
              /\ db_rows \cap {"Submit", "Job"} = {}
              /\ build_pc = "returned" => build_result.tag = "Err"

C30_Witness ==
    /\ ~build_input.no_verification
    /\ build_input.sources = <<"ok", "mismatch">>
    /\ verified = {1, 2}
    /\ build_pc = "returned"
    /\ build_result = [tag |-> "Err", error |-> "verification"]
    /\ db_rows = {}

\* An env argument with exactly one '=' and a key before it.
WellFormed(arg) ==
    /\ Cardinality(Separators(arg, "=")) = 1
    /\ arg[1] # "="

\* C31 (as claimed): with an env argument that has no '=', more than one
\* '=' or an empty key, build returns an error from the parsing of the
\* arguments at the latest, before packages, stores or sources are touched.
C31_OverlayValidated ==
    (\E i \in 1..Len(build_input.env) : ~WellFormed(build_input.env[i])) =>
        /\ build_pc \in {"start", "overlay", "returned"}
        /\ build_pc = "returned" =>
              build_result \in {BuildErr("prepare"), BuildErr("overlay")}

----------------------------------------------------------------------------
\* C32 (as claimed): the Job row is written only after the container run
\* and the log receiver have both finished, and the same ledger write holds
\* the artifact rows of the paths the job returns.
C32_JobRowWithArtifactRows ==
    job_row # None =>
        /\ join_result # None
        /\ run_job_result # None
        /\ job_row.artifact_rows = handle_result.artifacts

----------------------------------------------------------------------------
\* The file <job_uuid>.log inside log_dir.
UuidDotLog == path_join(LOG_DIR, JOB_ID \o <<".log">>)

\* C33 (as claimed): with a log_dir, the file the log receiver creates is
\* the one file <log_dir>/<job_uuid>.log, directly inside log_dir, and the
\* receiver fails when the file cannot be created anew.
C33_LogFileInLogDir ==
    log_input.log_dir =>
        /\ lr_pc = "recv" => log_path = UuidDotLog
        /\ (lr_pc # "open" /\ ~log_input.creatable) =>
              join_result = JoinErr("open")

----------------------------------------------------------------------------
\* The packages the walk entered: the root and every package resolved to.
Walked == {1} \cup UNION {r.pkgs : r \in {x \in resolved : Cardinality(x.pkgs) = 1}}

\* The dependencies of a package whose condition matches.
Matching(p) ==
    {d \in Elements(tree_input.build[p]) \cup Elements(tree_input.runtime[p]) :
        d.cond = "take"}

\* C34: a dependency is looked up in the repository only when its
\* condition matches; a lookup that finds no package or more than one ends
\* the walk with an abort; and when the walk returns a tree, every matching
\* dependency of every package it entered was resolved to exactly one
\* package.
C34_MatchingResolveToOne ==
    /\ \A r \in resolved : r.take
    /\ \A r \in resolved : Cardinality(r.pkgs) # 1 => tree_result.tag = "Abort"
    /\ tree_result.tag = "Ok" =>
          \A p \in Walked : \A d \in Matching(p) :
              \E r \in resolved :
                  r.of = p /\ r.name = d.name /\ Cardinality(r.pkgs) = 1

C34_Witness ==
    /\ tree_result.tag = "Abort"
    /\ tree_input.build[1] # <<>>
    /\ tree_input.build[1][1].cond = "skip"
    /\ \E r \in resolved : r.of = 1 /\ Cardinality(r.pkgs) = 2

----------------------------------------------------------------------------
\* A version: characters that are no space, the first a letter or digit.
IsVersion(str) ==
    /\ str # <<>>
    /\ str[1] \in Alnum
    /\ \A i \in 1..Len(str) : str[i] # " "

\* C35: for a dependency string '<name> =V' or '<name> >V' (one space, a
\* name of letters, digits, '-' and '_' that begins with a letter) the
\* parser returns the name before the space with Exact(V) or HigherAs(V);
\* a string without a space or whose first character is no letter is a
\* parse error.
C35_DependencyParsed ==
    dep_result # None =>
        LET spaces == Separators(dep_input, " ")
        IN  /\ \A i \in spaces :
                  LET name == SubSeq(dep_input, 1, i - 1)
                      rest == SubSeq(dep_input, i + 1, Len(dep_input))
                  IN  (/\ spaces = {i}
                       /\ name # <<>>
                       /\ name[1] \in Alpha
                       /\ \A k \in 1..Len(name) : name[k] \in Alnum \cup {"-", "_"}
                       /\ rest # <<>>
                       /\ rest[1] \in {"=", ">"}
                       /\ IsVersion(Tail(rest))) =>
                      dep_result =
                        DepOk(name, [tag |-> IF rest[1] = "=" THEN "Exact"
                                             ELSE "HigherAs",
                                     version |-> Tail(rest)])
            /\ (spaces = {} \/ dep_input[1] \notin Alpha) =>
                  dep_result = DepErr

C35_Witness ==
    /\ dep_input = <<"v", " ", ">", "1">>
    /\ dep_result = DepOk(<<"v">>, [tag |-> "HigherAs", version |-> <<"1">>])

----------------------------------------------------------------------------
\* The tasks whose sender is the inbox of node n (or the root channel).
WiredTo(n) == {t \in Nodes : sender[t] = n}

\* C36: a task hands at most one message to its sender, whichever way it
\* ends; so an inbox, and the root channel, never holds more messages than
\* there are tasks wired to it.
C36_AtMostOneMessage ==
    /\ \A t \in Nodes : Len(sent[t]) <= 1
    /\ \A n \in Nodes : Len(inbox[n]) <= Cardinality(WiredTo(n))
    /\ Len(root_chan) <= Cardinality(WiredTo(ROOT))

C36_Witness ==
    /\ \E n \in Nodes : Len(inbox[n]) = 2
    /\ \E t \in Nodes : /\ received_errors[t] # <<>>
                        /\ Len(sent[t]) = 1
                        /\ pc[t] = "done"

----------------------------------------------------------------------------
\* C37 (as claimed): with every step of every task and of the scheduler
\* eventually taken, the run of the orchestrator eventually returns, also
\* when a task ended with an error without having sent a message.
C37_RunReturns == <>(orch_pc = "returned")

----------------------------------------------------------------------------
\* Job j is between the read().await and the return of JobHandle::run.
Running(j) == job_pc[j] = "running"

\* C38 (as claimed): no selection round completes while a job is running.
C38_NoRoundCompletesDuringRun ==
    [][\A j \in Jobs :
          (job_pc[j] = "polling" /\ job_pc'[j] = "scheduled") =>
              \A k \in Jobs : ~Running(k)]_vars

\* C38 (amended): a round that completed has read the load of every
\* endpoint, each under the write lock of that endpoint; a running job
\* holds a read lock on its endpoint, and no endpoint has a writer and a
\* reader at once: while a job runs on an endpoint no round holds that
\* endpoint's write lock, and a round that still has to read it waits.
C38_RunExcludesPollOfItsEndpoint ==
    /\ \A j \in Jobs : Scheduled(j) => Reported(j) = EndpointIds
    /\ \A j \in Jobs : \A e \in EndpointIds :
          lock[e].writer = j => job_pc[j] = "polling" /\ e \notin Reported(j)
    /\ \A j \in Jobs : Running(j) => j \in lock[selected[j]].readers
    /\ \A e \in EndpointIds : lock[e].writer # 0 => lock[e].readers = {}

C38_Witness ==
    /\ Running(1)
    /\ job_pc[2] = "polling"
    /\ selected[1] \notin Reported(2)
    /\ Reported(2) # {}

\* C39: a job that was given its endpoint holds no lock of any endpoint,
\* and the endpoint it was given is least loaded by the loads read in its
\* own round, whatever was given to other jobs since: two jobs scheduled
\* before either runs can have the same endpoint by the same loads.
C39_SelectionReservesNothing ==
    \A j \in Jobs :
        Scheduled(j) =>
            /\ \A e \in EndpointIds :
                  lock[e].writer # j /\ j \notin lock[e].readers
            /\ selected[j] \in LeastLoaded(j)

C39_Witness ==
    /\ Scheduled(1)
    /\ Scheduled(2)
    /\ selected[1] = selected[2]
    /\ polls[1] = polls[2]
    /\ Len(polls[1]) = 2
    /\ polls[1][1][1] # polls[1][2][1]

----------------------------------------------------------------------------
\* The nodes that list d among their dependencies.
Listing(d) == {j \in Nodes : d \in jobtree[j]}

\* C40: a node listed as a dependency by several nodes is wired, without
\* an error of the wiring, to the first of them in the order of the jobs;
\* no other node listing it ever receives its result, and none of those
\* runs its own job.
C40_SharedDependencyWiredOnce ==
    orch_pc # "setup" =>
        \A d \in Nodes :
            Cardinality(Listing(d)) > 1 =>
                /\ sender[d] = Min(Listing(d))
                /\ result.tag = "Fatal" => result.error # "Failed to find root task"
                /\ \A p \in Listing(d) \ {sender[d]} :
                      /\ \A i \in 1..Len(received_dependencies[p]) :
                            received_dependencies[p][i][1] # d
                      /\ ~JobRan(p)

C40_Witness ==
    \E d \in Nodes :
        /\ Cardinality(Listing(d)) = 2
        /\ JobSucceeded(d)
        /\ \E i \in 1..Len(received_dependencies[sender[d]]) :
              received_dependencies[sender[d]][i][1] = d
        /\ \E p \in Listing(d) \ {sender[d]} : pc[p] = "done"

====
